---- MODULE Spec2Model ----
(***************************************************************************)
(* Flask-Caching: the key derivation and invalidation protocol of          *)
(* Cache.memoize / Cache.cached over a SimpleCache backend.                *)
(*                                                                         *)
(* Python values are tagged pairs, so that values of different Python      *)
(* types can be compared: <<"none", 0>>, <<"int", n>>, <<"str", chars>>,   *)
(* <<"obj", chars>> (an instance whose repr / __caching_id__ is chars).    *)
(* Strings that the code inspects character by character are sequences of *)
(* one-symbol strings.                                                     *)
(***************************************************************************)
EXTENDS Integers, Sequences, FiniteSets, TLC

VARIABLES
    kf,        \* pure-function runs: the memoized function under test
    kcall,     \* ... the call whose key was derived last
    kkey,      \* ... the key derived for kcall
    kprevkey,  \* ... the key derived for the call before it
    kop,       \* ... how kcall was obtained from the call before it
    func,        \* the decorated function the application calls
    cache,         \* SimpleCache._cache: key -> [expires, value]
    clock,       \* time()
    ntok,       \* number of version hashes drawn so far
    nval,       \* number of invocations of the wrapped function so far
    log,       \* history: log[v + 1] is the invocation that computed Result(v)
    stale,     \* history: results computed before delete_memoized(func)
    last,      \* history: the last operation and its outcome
    threads    \* concurrent runs: the calls in flight, one record per thread

\* threads is in both groups: only the concurrent runs change it
kvars == <<kf, kcall, kkey, kprevkey, kop, threads>>
svars == <<func, cache, clock, ntok, nval, log, stale, last, threads>>
vars == <<kf, kcall, kkey, kprevkey, kop, func, cache, clock, ntok, nval, log, stale, last,
          threads>>

-----------------------------------------------------------------------------
(* Bounds of the explored inputs *)

MaxParams == 2      \* declared parameters besides self
MaxVal == 1         \* argument values are 0..MaxVal
MaxExtraPos == 1    \* positional arguments beyond the declared ones
MaxIgnore == 1      \* names in args_to_ignore
MaxKw == 3          \* keyword arguments of a call
MaxTime == 2        \* the clock runs from 0 to MaxTime
MaxInvocations == 2 \* invocations of the wrapped function in a run
MaxTokens == 4      \* version hashes drawn in a run

-----------------------------------------------------------------------------
(* Python values *)

None == <<"none", 0>>
PyInt(n) == <<"int", n>>
PyStr(s) == <<"str", s>>
PyObj(t) == <<"obj", t>>

\* bool(v) as Python evaluates `elif arg_default:`
Truthy(v) ==
    CASE v[1] = "none" -> FALSE
      [] v[1] = "int" -> v[2] # 0
      [] v[1] = "str" -> Len(v[2]) > 0
      [] OTHER -> TRUE

\* repr(v), as the sequence of its symbols
Repr(v) ==
    CASE v[1] = "none" -> <<"None">>
      [] v[1] = "int" -> <<ToString(v[2])>>
      [] v[1] = "str" -> <<"'">> \o v[2] \o <<"'">>
      [] OTHER -> v[2]

ArgVals == {PyInt(i) : i \in 0..MaxVal}
DefVals == {None} \cup ArgVals
InstTokens == {<<"A", "1">>, <<"A", "-", "1">>}
Instances == {PyObj(t) : t \in InstTokens}

\* alphabetical order of the parameter and keyword names in use
NameOrder == <<"a", "b", "c", "cls", "d", "self", "y", "z">>
NameIdx(n) == CHOOSE i \in 1..Len(NameOrder) : NameOrder[i] = n
ParamNames == <<"a", "b", "c", "d">>
ExtraNames == {"y", "z"}

Range(s) == {s[i] : i \in 1..Len(s)}

RECURSIVE Perms(_)
Perms(S) ==
    IF S = {} THEN {<<>>}
    ELSE UNION {{<<x>> \o p : p \in Perms(S \ {x})} : x \in S}

-----------------------------------------------------------------------------
(* Introspection helpers *)

\* A wrapped callable: [name, params, varargs, varkw]; params is the sequence
\* of its POSITIONAL_OR_KEYWORD parameters, [name, hasdef, def] each.
get_arg_names(f) == [i \in 1..Len(f.params) |-> f.params[i].name]

get_arg_default(f, position) ==
    IF f.params[position].hasdef THEN f.params[position].def ELSE None

\* (variant: every object has the same identity token)
SameId(obj) == PyStr(<<"A", "1">>)

get_id(obj) == IF obj[1] = "obj" THEN PyStr(obj[2]) ELSE PyStr(Repr(obj))

-----------------------------------------------------------------------------
(* kwargs are sequences of <<name, value>> pairs in call order *)

KwNames(kwargs) == {kwargs[i][1] : i \in 1..Len(kwargs)}
KwGet(kwargs, n) == (CHOOSE i \in 1..Len(kwargs) : kwargs[i][1] = n)
KwVal(kwargs, n) == kwargs[KwGet(kwargs, n)][2]
RemoveName(names, n) == SelectSeq(names, LAMBDA x : x # n)

\* sorted((k, v) for k, v in kwargs.items() if k in kw_keys_remaining)
SortedRemaining(kwargs, kw_keys_remaining) ==
    SortSeq(SelectSeq(kwargs, LAMBDA p : p[1] \in Range(kw_keys_remaining)),
            LAMBDA p, q : NameIdx(p[1]) < NameIdx(q[1]))

\* One iteration of the loop of _memoize_kwargs_to_args; st is
\* [err, arg_num, new_args, kw_keys_remaining].
RECURSIVE K2ALoop(_, _, _, _, _, _)
K2ALoop(f, args, kwargs, args_to_ignore, i, st) ==
    IF st.err \/ i > Len(f.params) THEN st
    ELSE
      LET arg_names == get_arg_names(f)
          arg_default == get_arg_default(f, i)
          Take(arg, num, rem) ==
              K2ALoop(f, args, kwargs, args_to_ignore, i + 1,
                      [err |-> FALSE, arg_num |-> num,
                       new_args |-> Append(st.new_args, arg),
                       kw_keys_remaining |-> rem])
      IN  IF arg_names[i] \in args_to_ignore
            THEN Take(None, st.arg_num + 1, st.kw_keys_remaining)
          ELSE IF i = 1 /\ arg_names[i] \in {"self", "cls"}
            THEN IF Len(args) = 0
                   THEN [st EXCEPT !.err = TRUE]     \* args[0]: IndexError
                   ELSE Take(get_id(args[1]), st.arg_num + 1, st.kw_keys_remaining)
          ELSE IF arg_names[i] \in KwNames(kwargs)
            THEN Take(KwVal(kwargs, arg_names[i]), st.arg_num,
                      RemoveName(st.kw_keys_remaining, arg_names[i]))
          ELSE IF st.arg_num < Len(args)
            THEN Take(args[st.arg_num + 1], st.arg_num + 1, st.kw_keys_remaining)
          ELSE IF Truthy(arg_default)
            THEN Take(arg_default, st.arg_num + 1, st.kw_keys_remaining)
          ELSE Take(None, st.arg_num + 1, st.kw_keys_remaining)

\* Cache._memoize_kwargs_to_args: [err, args, kwargs]
MemoizeKwargsToArgs(f, args, kwargs, args_to_ignore) ==
    LET st == K2ALoop(f, args, kwargs, args_to_ignore, 1,
                      [err |-> FALSE, arg_num |-> 0, new_args |-> <<>>,
                       kw_keys_remaining |-> [i \in 1..Len(kwargs) |-> kwargs[i][1]]])
    IN  IF st.err THEN [err |-> TRUE, args |-> <<>>, kwargs |-> <<>>]
        ELSE [err |-> FALSE,
              args |-> st.new_args \o SubSeq(args, Len(f.params) + 1, Len(args)),
              kwargs |-> SortedRemaining(kwargs, st.kw_keys_remaining)]

-----------------------------------------------------------------------------
(* Strings *)

\* The characters of valid_chars among the symbols in use; str.translate with
\* null_control deletes every other character.
ValidChars == {"A", "B", "m", "f", "a", "d", "1", "2", "0", "_", ".", "_memver"}
Translate(s) == SelectSeq(s, LAMBDA ch : ch \in ValidChars)

RECURSIVE JoinSeqs(_, _)
JoinSeqs(sep, parts) ==
    IF Len(parts) = 0 THEN <<>>
    ELSE IF Len(parts) = 1 THEN parts[1]
    ELSE parts[1] \o sep \o JoinSeqs(sep, Tail(parts))

\* str(tuple): "(r1, r2)", "(r1,)" or "()"
StrTuple(t) ==
    <<"(">> \o JoinSeqs(<<", ">>, [i \in 1..Len(t) |-> Repr(t[i])])
            \o (IF Len(t) = 1 THEN <<",">> ELSE <<>>) \o <<")">>

\* str(OrderedDict): "OrderedDict()" or "OrderedDict([('k', v), ...])"
StrOrderedDict(kw) ==
    IF Len(kw) = 0 THEN <<"OrderedDict()">>
    ELSE <<"OrderedDict([">>
         \o JoinSeqs(<<", ">>,
                     [i \in 1..Len(kw) |->
                        <<"(", "'", kw[i][1], "'", ", ">> \o Repr(kw[i][2]) \o <<")">>])
         \o <<"])">>

-----------------------------------------------------------------------------
(* function_namespace *)

\* A callable is [module, qualname, params, varargs, varkw, self]: self is
\* None for a plain function, the instance for a bound method; params are
\* the parameters inspect.signature reports (a bound method's lack self).
BoundMethod(f, obj) == [f EXCEPT !.params = Tail(@), !.self = obj]

isclass(v) == v[1] = "class"

\* The exception the check of a classmethod's first argument ends in, "none"
\* if it passes: inspect.isclass(args[0]) is an IndexError on an empty args.
cls_check(f, args) ==
    IF Len(f.params) > 0 /\ f.params[1].name = "cls"
    THEN IF Len(args) = 0 THEN "IndexError"
         ELSE IF ~isclass(args[1]) THEN "ValueError"
         ELSE "none"
    ELSE "none"

\* [err, ns, ins]; ins = <<>> stands for None
function_namespace(f, args) ==
    LET m_args == get_arg_names(f)
        instance_token ==
            IF f.self # None /\ ~isclass(f.self) THEN get_id(f.self)[2]
            ELSE IF Len(m_args) > 0 /\ m_args[1] = "self" /\ Len(args) > 0
              THEN get_id(args[1])[2]
            ELSE <<>>
        name == f.qualname
        ns == Translate(JoinSeqs(<<".">>, <<f.module, name>>))
        ins == IF Len(instance_token) > 0
               THEN Translate(JoinSeqs(<<".">>, <<f.module, name, instance_token>>))
               ELSE <<>>
    IN  IF cls_check(f, args) # "none"
        THEN [err |-> TRUE, ns |-> <<>>, ins |-> <<>>]
        ELSE [err |-> FALSE, ns |-> ns, ins |-> ins]

-----------------------------------------------------------------------------
(* SimpleCache: the store c maps a key to [expires, value] *)

default_timeout == 300
Threshold == 500

Dumps(v) == <<"pickle", v>>
Loads(p) == p[2]

\* (variant: an item never expires)
NeverExpired(item, now) == FALSE

Expired(item, now) == item.expires # 0 /\ item.expires <= now

\* (variant: every item gets the default timeout)
DefaultTimeoutOnly(timeout, now) == now + default_timeout

_normalize_timeout(timeout, now) ==
    LET t == IF timeout = None THEN default_timeout ELSE timeout[2]
    IN  IF t > 0 THEN now + t ELSE t

\* _prune: the store never exceeds Threshold within the bounds explored, so
\* only the removal of expired items is written out.
_prune(c, now) ==
    IF Cardinality(DOMAIN c) > Threshold
    THEN [k \in {k \in DOMAIN c : ~Expired(c[k], now)} |-> c[k]]
    ELSE c

CacheGet(c, now, key) ==
    IF key \in DOMAIN c /\ ~Expired(c[key], now) THEN Loads(c[key].value) ELSE None

CacheHas(c, now, key) == key \in DOMAIN c /\ ~Expired(c[key], now)

CacheSet(c, now, key, value, timeout) ==
    (key :> [expires |-> _normalize_timeout(timeout, now), value |-> Dumps(value)])
        @@ _prune(c, now)

\* (variant: delete removes nothing)
NoDelete(c, key) == c

CacheDelete(c, key) == [k \in DOMAIN c \ {key} |-> c[k]]

\* BaseCache.get_many / set_many / delete_many over sequences of keys
CacheGetMany(c, now, keys) == [i \in 1..Len(keys) |-> CacheGet(c, now, keys[i])]

RECURSIVE CacheSetMany(_, _, _, _, _)
CacheSetMany(c, now, keys, values, timeout) ==
    IF Len(keys) = 0 THEN c
    ELSE CacheSetMany(CacheSet(c, now, keys[1], values[1], timeout), now,
                      Tail(keys), Tail(values), timeout)

EmptyCache == [k \in {} |-> 0]

-----------------------------------------------------------------------------
(* Version registry *)

_memvname(funcname) == <<"ver", funcname \o <<"_memver">>>>

\* (variant: every version token is the same)
ConstantVersionHash(tok) == PyStr(<<ToString(0)>>)

\* uuid4 is taken to be fresh: the tok-th token drawn
_memoize_make_version_hash(tok) == PyStr(<<ToString(tok)>>)

\* (variant: the version data is the last version alone)
LastVersionOnly(version_data_list) ==
    version_data_list[Len(version_data_list)][2]

\* "".join(version_data_list)
JoinVersionData(version_data_list) ==
    JoinSeqs(<<>>, [i \in 1..Len(version_data_list) |-> version_data_list[i][2]])

\* Cache._memoize_version; forced_update is whether the predicate of that
\* name is callable and returns True. Returns [err, c, tok, fname,
\* version_data, dirty].
NoVersion(c, tok) ==
    [err |-> TRUE, c |-> c, tok |-> tok, fname |-> <<>>, version_data |-> <<>>,
     dirty |-> FALSE]

\* if dirty: set_many(dict(zip(fetch_keys, version_data_list)), timeout)
VersionStore(c, now, tok, fname, keys, version_data_list, dirty, timeout) ==
    [err |-> FALSE,
     c |-> IF dirty THEN CacheSetMany(c, now, keys, version_data_list, timeout) ELSE c,
     tok |-> tok, fname |-> fname,
     version_data |-> JoinVersionData(version_data_list), dirty |-> dirty]

\* (variant: a fresh version is written under every key fetched)
VersionResetAll(c, now, tok, fname, fetch_keys, got, reset, timeout, forced_update) ==
    VersionStore(c, now, tok + Len(fetch_keys), fname, fetch_keys,
                 IF Len(fetch_keys) = 2
                 THEN <<_memoize_make_version_hash(tok), _memoize_make_version_hash(tok + 1)>>
                 ELSE <<_memoize_make_version_hash(tok)>>,
                 TRUE, timeout)

\* the versions read by get_many, a fresh one for each that is missing, and
\* on reset a fresh one for the last key alone
VersionFill(c, now, tok, fname, fetch_keys, got, reset, timeout, forced_update) ==
    LET new1 == got[1] = None
        v1 == IF new1 THEN _memoize_make_version_hash(tok) ELSE got[1]
        tok1 == IF new1 THEN tok + 1 ELSE tok
        new2 == Len(fetch_keys) = 2 /\ got[2] = None
        v2 == IF new2 THEN _memoize_make_version_hash(tok1) ELSE got[Len(got)]
        tok2 == IF new2 THEN tok1 + 1 ELSE tok1
    IN  IF reset
        THEN VersionStore(c, now, tok2 + 1, fname, <<fetch_keys[Len(fetch_keys)]>>,
                          <<_memoize_make_version_hash(tok2)>>, TRUE, timeout)
        ELSE VersionStore(c, now, tok2, fname, fetch_keys,
                          IF Len(fetch_keys) = 2 THEN <<v1, v2>> ELSE <<v1>>,
                          forced_update \/ new1 \/ new2, timeout)

VersionFetch(c, now, tok, fname, fetch_keys, reset, delete, timeout, forced_update) ==
    IF delete
    THEN [err |-> FALSE, c |-> CacheDelete(c, fetch_keys[Len(fetch_keys)]),
          tok |-> tok, fname |-> fname, version_data |-> <<>>, dirty |-> FALSE]
    ELSE VersionFill(c, now, tok, fname, fetch_keys, CacheGetMany(c, now, fetch_keys),
                     reset, timeout, forced_update)

FetchKeys(fname, instance_fname) ==
    IF Len(instance_fname) > 0
    THEN <<_memvname(fname), _memvname(instance_fname)>>
    ELSE <<_memvname(fname)>>

VersionOf(nsr, c, now, tok, reset, delete, timeout, args_to_ignore, forced_update) ==
    IF nsr.err THEN NoVersion(c, tok)
    ELSE VersionFetch(c, now, tok, nsr.ns,
                      FetchKeys(nsr.ns, IF "self" \in args_to_ignore THEN <<>> ELSE nsr.ins),
                      reset, delete, timeout, forced_update)

_memoize_version(c, now, tok, f, args, reset, delete, timeout, args_to_ignore, forced_update) ==
    VersionOf(function_namespace(f, args), c, now, tok, reset, delete, timeout,
              args_to_ignore, forced_update)

-----------------------------------------------------------------------------
(* Key builder *)

\* hash_method(...).digest(), base64, [:16]: taken to be injective
HashKey(updated) == updated

\* updated = f"{altfname}{keyargs}{keykwargs}"
KeyString(altfname, keyargs, keykwargs) ==
    altfname \o StrTuple(keyargs) \o StrOrderedDict(keykwargs)

\* make_cache_key of _memoize_make_cache_key, for the memoized function fn
\* (its decoration: cache_timeout, args_to_ignore, no forced_update).
\* [err, c, tok, key]
CacheKeyOf(vr, ka, c, tok) ==
    IF vr.err THEN [err |-> TRUE, c |-> c, tok |-> tok, key |-> <<>>]
    ELSE IF ka.err THEN [err |-> TRUE, c |-> vr.c, tok |-> vr.tok, key |-> <<>>]
    ELSE [err |-> FALSE, c |-> vr.c, tok |-> vr.tok,
          key |-> <<"memo", HashKey(KeyString(vr.fname, ka.args, ka.kwargs)),
                    vr.version_data>>]

make_cache_key(c, now, tok, fn, f, args, kwargs) ==
    CacheKeyOf(_memoize_version(c, now, tok, f, args, FALSE, FALSE,
                                fn.cache_timeout, fn.args_to_ignore, FALSE),
               MemoizeKwargsToArgs(f, args, kwargs, fn.args_to_ignore), c, tok)

-----------------------------------------------------------------------------
(* The wrapped function *)

ParamIdx(f, n) == CHOOSE i \in 1..Len(f.params) : f.params[i].name = n

\* Whether Python binds the call f(*args, **kwargs) (else it raises TypeError)
BindsCall(f, args, kwargs) ==
    /\ (Len(args) <= Len(f.params) \/ f.varargs)
    /\ \A i \in 1..Len(kwargs) :
          IF kwargs[i][1] \in Range(get_arg_names(f))
          THEN ParamIdx(f, kwargs[i][1]) > Len(args)
          ELSE f.varkw
    /\ \A i \in 1..Len(f.params) :
          f.params[i].hasdef \/ i <= Len(args) \/ f.params[i].name \in KwNames(kwargs)

TypeError == <<"raise", 0>>
\* The val-th result the wrapped function computes: each invocation returns a
\* value no other invocation returns (a + b + random.randrange(...)).
Result(val) == <<"res", val>>

-----------------------------------------------------------------------------
(* Cache.memoize: decorated_function *)

\* rv = f(*args, **kwargs) followed by the store; [c, tok, val, rv, invoked]
MissCompute(c, now, tok, val, fn, key, args, kwargs, store) ==
    IF ~BindsCall(fn, args, kwargs)
    THEN [c |-> c, tok |-> tok, val |-> val, rv |-> TypeError, invoked |-> FALSE]
    ELSE [c |-> IF store
                THEN CacheSet(c, now, key, Result(val), fn.cache_timeout)
                ELSE c,
          tok |-> tok, val |-> val + 1, rv |-> Result(val), invoked |-> TRUE]

\* The call decorated_function(*args, **kwargs) of the memoized function fn
\* outside debug mode. [c, tok, val, rv, invoked]
Lookup(kr, rv, now, val, fn, args, kwargs) ==
    IF rv # None
    THEN [c |-> kr.c, tok |-> kr.tok, val |-> val, rv |-> rv, invoked |-> FALSE]
    ELSE MissCompute(kr.c, now, kr.tok, val, fn, kr.key, args, kwargs, TRUE)

LookupKey(kr, now, val, fn, args, kwargs) ==
    IF kr.err
    THEN MissCompute(kr.c, now, kr.tok, val, fn, <<>>, args, kwargs, FALSE)
    ELSE Lookup(kr, CacheGet(kr.c, now, kr.key), now, val, fn, args, kwargs)

decorated_function(c, now, tok, val, fn, args, kwargs) ==
    LookupKey(make_cache_key(c, now, tok, fn, fn, args, kwargs), now, val, fn, args, kwargs)

\* Cache.delete_memoized(f, *args, **kwargs); f is the decorated function or
\* a method bound to an instance, fn its undecorated function. [err, c, tok]
Reset(vr) == [err |-> vr.err, c |-> vr.c, tok |-> vr.tok]

DeleteKey(kr) ==
    [err |-> kr.err, c |-> IF kr.err THEN kr.c ELSE CacheDelete(kr.c, kr.key),
     tok |-> kr.tok]

delete_memoized(c, now, tok, fn, f, args, kwargs) ==
    IF Len(args) = 0 /\ Len(kwargs) = 0
    THEN Reset(_memoize_version(c, now, tok, f, <<>>, TRUE, FALSE, None, {}, FALSE))
    ELSE DeleteKey(make_cache_key(c, now, tok, fn, fn, args, kwargs))

\* Cache.delete_memoized_verhash(f): [err, c, tok]
delete_memoized_verhash(c, now, tok, f) ==
    Reset(_memoize_version(c, now, tok, f, <<>>, FALSE, TRUE, None, {}, FALSE))

-----------------------------------------------------------------------------
(* Cache.cached: decorated_function of a view, key_prefix "view/%s" *)

\* _make_cache_key with use_request: key_prefix % request.path
view_make_cache_key(path) == <<"view", <<"view/">> \o path>>

\* [c, val, rv, invoked] for the view decorated with cached(timeout)
ViewLookup(c, now, val, timeout, cache_key, rv) ==
    IF rv # None
    THEN [c |-> c, val |-> val, rv |-> rv, invoked |-> FALSE]
    ELSE [c |-> CacheSet(c, now, cache_key, Result(val), timeout),
          val |-> val + 1, rv |-> Result(val), invoked |-> TRUE]

cached_decorated_function(c, now, val, timeout, path) ==
    ViewLookup(c, now, val, timeout, view_make_cache_key(path),
               CacheGet(c, now, view_make_cache_key(path)))

-----------------------------------------------------------------------------
(* decorated_function with its options: unless, forced_update, cache_none,  *)
(* response_filter, and a backend whose operations may raise                *)

PyTrue == <<"bool", TRUE>>
PyFalse == <<"bool", FALSE>>

\* What surrounds one decorated call, env: what the unless and forced_update
\* predicates return (None: no predicate was given), whether response_filter
\* accepts the result, and the backend operations that raise.
BackendOps == {"get_many", "set_many", "get", "has", "set"}

\* (variant: the cache is never bypassed)
NeverBypass(unless) == FALSE

\* Cache._bypass_cache: unless(...) is True
_bypass_cache(unless) == unless = PyTrue

\* (variant: an update is never forced)
NeverForced(forced_update) == FALSE

\* callable(forced_update) and forced_update(...) is True
IsForced(forced_update) == forced_update = PyTrue

\* f(*args, **kwargs) of the wrapped function: [rv, val, invoked]
Invoke(fn, val, args, kwargs) ==
    IF ~BindsCall(fn, args, kwargs)
    THEN [rv |-> TypeError, val |-> val, invoked |-> FALSE]
    ELSE [rv |-> IF fn.returns_none THEN None ELSE Result(val),
          val |-> val + 1, invoked |-> TRUE]

\* The outcome of a decorated call: [c, tok, val, rv, invoked, ops, key];
\* ops are the backend operations it made, key the key it derived.
Returned(c, tok, ops, key, iv) ==
    [c |-> c, tok |-> tok, val |-> iv.val, rv |-> iv.rv, invoked |-> iv.invoked,
     ops |-> ops, key |-> key]

\* (variant: the wrapped function is run although the store serves the call)
HitAfterInvoking(c, tok, val, rv, ops, key) ==
    [c |-> c, tok |-> tok, val |-> val + 1, rv |-> rv, invoked |-> FALSE,
     ops |-> ops, key |-> key]

Hit(c, tok, val, rv, ops, key) ==
    [c |-> c, tok |-> tok, val |-> val, rv |-> rv, invoked |-> FALSE,
     ops |-> ops, key |-> key]

\* (variant: every result is stored, whatever response_filter returns)
AlwaysAccepted(response_filter, accept) == TRUE

\* response_filter is None or response_filter(rv)
Accepted(response_filter, accept) == ~response_filter \/ accept

\* if not found: rv = f(*args, **kwargs), and the store
StoreResult(c, now, tok, ops, fn, key, iv, env) ==
    IF ~iv.invoked \/ ~Accepted(fn.response_filter, env.accept)
      THEN Returned(c, tok, ops, key, iv)
    ELSE IF "set" \in env.fail
      THEN Returned(c, tok, ops \cup {"set"}, key, iv)
    ELSE Returned(CacheSet(c, now, key, iv.rv, fn.cache_timeout), tok,
                  ops \cup {"set"}, key, iv)

\* (variant: a None read is looked up again with has, whatever cache_none is)
AlwaysChecksExistence(cache_none) == TRUE

\* (variant: a None read is never looked up again)
NeverChecksExistence(cache_none) == FALSE

\* if rv is None: found = self.cache.has(cache_key) unless not cache_none
ChecksExistence(cache_none) == cache_none

\* rv = self.cache.get(cache_key) has returned rv
AfterGet(kr, rv, now, val, fn, args, kwargs, env) ==
    IF rv # None
      THEN Hit(kr.c, kr.tok, val, rv, kr.ops \cup {"get"}, kr.key)
    ELSE IF ~ChecksExistence(fn.cache_none)
      THEN StoreResult(kr.c, now, kr.tok, kr.ops \cup {"get"}, fn, kr.key,
                       Invoke(fn, val, args, kwargs), env)
    ELSE IF "has" \in env.fail
      THEN Returned(kr.c, kr.tok, kr.ops \cup {"get", "has"}, kr.key,
                    Invoke(fn, val, args, kwargs))
    ELSE IF CacheHas(kr.c, now, kr.key)
      THEN Hit(kr.c, kr.tok, val, None, kr.ops \cup {"get", "has"}, kr.key)
    ELSE StoreResult(kr.c, now, kr.tok, kr.ops \cup {"get", "has"}, fn, kr.key,
                     Invoke(fn, val, args, kwargs), env)

\* the try block after the key is built, outside debug mode: an exception
\* ends in return f(*args, **kwargs)
LookupWith(kr, now, val, fn, args, kwargs, env) ==
    IF kr.err
      THEN Returned(kr.c, kr.tok, kr.ops, <<>>, Invoke(fn, val, args, kwargs))
    ELSE IF IsForced(env.forced_update)
      THEN StoreResult(kr.c, now, kr.tok, kr.ops, fn, kr.key,
                       Invoke(fn, val, args, kwargs), env)
    ELSE IF "get" \in env.fail
      THEN Returned(kr.c, kr.tok, kr.ops \cup {"get"}, kr.key,
                    Invoke(fn, val, args, kwargs))
    ELSE AfterGet(kr, CacheGet(kr.c, now, kr.key), now, val, fn, args, kwargs, env)

\* (variant: an exception of get_many or set_many goes unnoticed)
KeyIgnoringFailure(vr, ka, c, tok, fail) ==
    CacheKeyOf(vr, ka, c, tok)
    @@ [ops |-> IF vr.dirty THEN {"get_many", "set_many"} ELSE {"get_many"}]

\* make_cache_key over a backend whose operations in fail raise; a set_many
\* that raises is taken to have written nothing. [err, c, tok, key, ops]
KeyWith(vr, ka, c, tok, fail) ==
    IF vr.err
      THEN [err |-> TRUE, c |-> c, tok |-> tok, key |-> <<>>, ops |-> {}]
    ELSE IF "get_many" \in fail
      THEN [err |-> TRUE, c |-> c, tok |-> tok, key |-> <<>>, ops |-> {"get_many"}]
    ELSE IF vr.dirty /\ "set_many" \in fail
      THEN [err |-> TRUE, c |-> c, tok |-> vr.tok, key |-> <<>>,
            ops |-> {"get_many", "set_many"}]
    ELSE CacheKeyOf(vr, ka, c, tok)
         @@ [ops |-> IF vr.dirty THEN {"get_many", "set_many"} ELSE {"get_many"}]

\* Cache.memoize: decorated_function(*args, **kwargs) in the surroundings env
memoize_decorated_function(c, now, tok, val, fn, args, kwargs, env) ==
    IF _bypass_cache(env.unless)
    THEN Returned(c, tok, {}, <<>>, Invoke(fn, val, args, kwargs))
    ELSE LookupWith(KeyWith(_memoize_version(c, now, tok, fn, args, FALSE, FALSE,
                                             fn.cache_timeout, fn.args_to_ignore,
                                             IsForced(env.forced_update)),
                            MemoizeKwargsToArgs(fn, args, kwargs, fn.args_to_ignore),
                            c, tok, env.fail),
                    now, val, fn, args, kwargs, env)

\* Cache.cached: decorated_function() of a view requested at path
cached_view_function(c, now, tok, val, fn, path, env) ==
    IF _bypass_cache(env.unless)
    THEN Returned(c, tok, {}, <<>>, Invoke(fn, val, <<>>, <<>>))
    ELSE LookupWith([err |-> FALSE, c |-> c, tok |-> tok,
                     key |-> view_make_cache_key(path), ops |-> {}],
                    now, val, fn, <<>>, <<>>, env)

-----------------------------------------------------------------------------
(* The memoized functions explored *)

DefaultChoices == {<<FALSE, None>>} \cup {<<TRUE, d>> : d \in DefVals}

\* Declared parameters a, b, ...: a parameter with a default is followed
\* only by parameters with defaults.
ParamSeqsOf(n, choices) ==
    {[i \in 1..n |-> [name |-> ParamNames[i], hasdef |-> ch[i][1], def |-> ch[i][2]]] :
        ch \in {x \in [1..n -> choices] :
                   \A i, j \in 1..n : (i < j /\ x[i][1]) => x[j][1]}}
ParamSeqs(n) == ParamSeqsOf(n, DefaultChoices)

SelfParam == [name |-> "self", hasdef |-> FALSE, def |-> None]
ClsParam == [name |-> "cls", hasdef |-> FALSE, def |-> None]
\* the class A, as inspect.isclass and repr see it
ClassA == <<"class", <<"<class 'm.A'>">>>>
HasReceiver(kind) == kind \in {"method", "classmethod"}

Fn(kind, params, varargs, varkw, timeout, ignore) ==
    [module |-> <<"m">>,
     qualname |-> IF HasReceiver(kind) THEN <<"A", ".", "f">> ELSE <<"f">>,
     kind |-> kind,
     params |-> IF kind = "method" THEN <<SelfParam>> \o params
                ELSE IF kind = "classmethod" THEN <<ClsParam>> \o params
                ELSE params,
     varargs |-> varargs, varkw |-> varkw, self |-> None,
     cache_timeout |-> timeout, args_to_ignore |-> ignore]

\* The declared parameters besides self, and the instance a call goes through
OwnParams(fn) == IF HasReceiver(fn.kind) THEN Tail(fn.params) ELSE fn.params
OwnNames(fn) == [i \in 1..Len(OwnParams(fn)) |-> OwnParams(fn)[i].name]
SelfArgs(fn, call) == IF HasReceiver(fn.kind) THEN <<call.args[1]>> ELSE <<>>
OwnArgs(fn, call) == IF HasReceiver(fn.kind) THEN Tail(call.args) ELSE call.args

\* The arguments a call passes explicitly, by name, and its surplus positionals
Explicit(fn, call) ==
    LET names == OwnNames(fn)
        pos == OwnArgs(fn, call)
        npos == IF Len(pos) < Len(names) THEN Len(pos) ELSE Len(names)
    IN  [n \in {names[i] : i \in 1..npos} \cup KwNames(call.kwargs) |->
            IF n \in KwNames(call.kwargs) THEN KwVal(call.kwargs, n)
            ELSE pos[CHOOSE i \in 1..npos : names[i] = n]]
Surplus(fn, call) ==
    SubSeq(OwnArgs(fn, call), Len(OwnNames(fn)) + 1, Len(OwnArgs(fn, call)))

\* The parameter values the wrapped function runs with: the explicit ones and
\* the declared defaults of the others
Effective(f, call) ==
    LET ex == Explicit(f, call)
    IN  [n \in Range(OwnNames(f)) |->
            IF n \in DOMAIN ex THEN ex[n]
            ELSE OwnParams(f)[CHOOSE i \in 1..Len(OwnParams(f)) :
                                 OwnParams(f)[i].name = n].def]

\* Every call that passes the assignment asg (name -> value) and the surplus
\* positionals xs through the instance slf (<<>> for a plain function)
Splits(fn, slf, asg, xs) ==
    LET names == OwnNames(fn)
        n == Len(names)
        ks == IF Len(xs) > 0 THEN {n}
              ELSE {k \in 0..n : \A i \in 1..k : names[i] \in DOMAIN asg}
    IN  UNION {
          {[args |-> slf \o [i \in 1..k |-> asg[names[i]]] \o xs, kwargs |-> kw] :
              kw \in Perms({<<nm, asg[nm]>> : nm \in DOMAIN asg \ {names[i] : i \in 1..k}})}
          : k \in {j \in ks : Cardinality(DOMAIN asg) - j <= MaxKw}}

\* The assignments Python binds for fn: every parameter without default is
\* passed, names outside the signature only with **kwargs, surplus positionals
\* only with *args and every parameter passed.
AssignmentsOver(fn, vals) ==
    LET names == Range(OwnNames(fn))
        required == {p.name : p \in {q \in Range(OwnParams(fn)) : ~q.hasdef}}
        extras == IF fn.varkw THEN SUBSET ExtraNames ELSE {{}}
    IN  UNION {UNION {{a @@ [e \in E |-> PyInt(1)] : a \in [S -> vals]} : E \in extras}
               : S \in {T \in SUBSET names : required \subseteq T}}
Assignments(fn) == AssignmentsOver(fn, ArgVals)

Surpluses(fn, asg) ==
    IF fn.varargs /\ Range(OwnNames(fn)) \subseteq DOMAIN asg
    THEN UNION {[1..m -> ArgVals] : m \in 0..MaxExtraPos}
    ELSE {<<>>}

SelfChoices(fn) ==
    IF fn.kind = "method" THEN {<<o>> : o \in Instances}
    ELSE IF fn.kind = "classmethod" THEN {<<ClassA>>}
    ELSE {<<>>}

KSelfChoices(fn) == IF fn.kind = "method" THEN {<<PyObj(<<"A", "1">>)>>} ELSE {<<>>}

IgnoreSets(fn) ==
    {S \in SUBSET Range(get_arg_names(fn)) : Cardinality(S) <= MaxIgnore}

\* The string the key of the call is the hash of, whatever the store holds
PureKey(fn, call) ==
    LET nsr == function_namespace(fn, call.args)
        ka == MemoizeKwargsToArgs(fn, call.args, call.kwargs, fn.args_to_ignore)
    IN  IF nsr.err \/ ka.err THEN <<"error">>
        ELSE KeyString(nsr.ns, ka.args, ka.kwargs)

-----------------------------------------------------------------------------
(* Key derivation on its own: a memoized function, a call, a related call *)

NoCall == [args |-> <<>>, kwargs |-> <<>>]
NoFn == Fn("none", <<>>, FALSE, FALSE, None, {})
NoLast == [op |-> "none", slf |-> <<>>, asg |-> <<>>, rv |-> None, invoked |-> FALSE]

\* no call is in flight
NoThreads == <<>>

\* the application state while only keys are derived
SIdle ==
    /\ threads = NoThreads
    /\ func = NoFn
    /\ cache = EmptyCache
    /\ clock = 0
    /\ ntok = 1
    /\ nval = 0
    /\ log = <<>>
    /\ stale = {}
    /\ last = NoLast

KIdle ==
    /\ threads = NoThreads
    /\ kf = NoFn
    /\ kcall = NoCall
    /\ kkey = <<>>
    /\ kprevkey = <<>>
    /\ kop = "idle"

KInit ==
    /\ \E kind \in {"func", "method"}, n \in 0..MaxParams, va \in BOOLEAN, vk \in BOOLEAN :
         \E ps \in ParamSeqs(n) :
           \E ig \in IgnoreSets(Fn(kind, ps, va, vk, None, {})) :
              kf = Fn(kind, ps, va, vk, None, ig)
    /\ kcall = NoCall
    /\ kkey = <<>>
    /\ kprevkey = <<>>
    /\ kop = "new"
    /\ SIdle

KDerive(call, op) ==
    /\ kcall' = call
    /\ kkey' = PureKey(kf, call)
    /\ kprevkey' = kkey
    /\ kop' = op
    /\ UNCHANGED kf
    /\ UNCHANGED svars

\* a first call of the memoized function
KCall ==
    /\ kop = "new"
    /\ \E asg \in Assignments(kf) :
         \E xs \in Surpluses(kf, asg), slf \in KSelfChoices(kf) :
           \E call \in Splits(kf, slf, asg, xs) : KDerive(call, "call")

\* the same assignment, split differently between positionals and keywords
KResplit ==
    /\ kop = "call"
    /\ \E call \in Splits(kf, SelfArgs(kf, kcall), Explicit(kf, kcall), Surplus(kf, kcall))
                      \ {kcall} :
          KDerive(call, "resplit")

\* the same call but for the value of one ignored argument
KChangeIgnored ==
    /\ kop = "call"
    /\ \/ \E i \in 1..Len(kcall.args), v \in ArgVals :
            /\ i <= Len(kf.params)
            /\ kf.params[i].name \in kf.args_to_ignore \ {"self"}
            /\ v # kcall.args[i]
            /\ KDerive([kcall EXCEPT !.args[i] = v], "change_ignored")
       \/ \E i \in 1..Len(kcall.kwargs), v \in ArgVals :
            /\ kcall.kwargs[i][1] \in kf.args_to_ignore
            /\ v # kcall.kwargs[i][2]
            /\ KDerive([kcall EXCEPT !.kwargs[i][2] = v], "change_ignored")

\* the same call with one omitted parameter passed as its declared default
KPassDefault ==
    /\ kop = "call"
    /\ Len(Surplus(kf, kcall)) = 0
    /\ \E p \in Range(OwnParams(kf)) :
         /\ p.hasdef
         /\ p.name \notin DOMAIN Explicit(kf, kcall)
         /\ \E call \in Splits(kf, SelfArgs(kf, kcall),
                               (p.name :> p.def) @@ Explicit(kf, kcall), <<>>) :
               KDerive(call, "pass_default")

KNext == KCall \/ KResplit \/ KChangeIgnored \/ KPassDefault

SpecKeys == KInit /\ [][KNext]_vars

\* the same for functions memoized without args_to_ignore
KInitNoIgnore == KInit /\ kf.args_to_ignore = {}
KNextNoIgnore == KCall \/ KResplit \/ KPassDefault
SpecKeysNoIgnore == KInitNoIgnore /\ [][KNextNoIgnore]_vars

\* a second call of the same function whose parameter values, declared
\* defaults applied, differ from the first call's in a parameter that is not
\* ignored; None is among the values passed
KOtherCall ==
    /\ kop = "call"
    /\ \E asg \in AssignmentsOver(kf, DefVals) :
         \E call \in Splits(kf, SelfArgs(kf, kcall), asg, <<>>) :
            /\ \E n \in Range(OwnNames(kf)) \ kf.args_to_ignore :
                  Effective(kf, call)[n] # Effective(kf, kcall)[n]
            /\ KDerive(call, "other")

\* the functions whose every argument is a declared parameter
KInitDistinct == KInit /\ ~kf.varargs /\ ~kf.varkw
KNextDistinct == KCall \/ KOtherCall
SpecKeysDistinct == KInitDistinct /\ [][KNextDistinct]_vars

-----------------------------------------------------------------------------
(* Properties of the key derivation *)

\* C2: every way of splitting one assignment between positional and keyword
\* form, keywords in any order, derives the same key.
ArgumentEquivalence == kop = "resplit" => kkey = kprevkey

\* The same, for functions memoized without args_to_ignore.
ArgumentEquivalenceNoIgnore ==
    (kop = "resplit" /\ kf.args_to_ignore = {}) => kkey = kprevkey

\* C3: two calls that differ only in the value of an ignored argument derive
\* the same key, whether the argument is passed positionally or by keyword.
IgnoredArgumentSameKey == kop = "change_ignored" => kkey = kprevkey

\* The same, for an ignored argument that is passed positionally.
IgnoredPositionalSameKey ==
    (kop = "change_ignored"
       /\ KwNames(kcall.kwargs) \cap kf.args_to_ignore = {}) => kkey = kprevkey

\* C10: omitting a parameter and passing its declared default derive the same
\* key, for every default value.
DefaultSameKey == kop = "pass_default" => kkey = kprevkey

\* The same, for defaults that are true in a boolean context or None, on
\* functions memoized without args_to_ignore.
TruthyDefaultSameKey ==
    (kop = "pass_default" /\ kf.args_to_ignore = {}
       /\ \A p \in Range(kf.params) : p.hasdef => (Truthy(p.def) \/ p.def = None))
    => kkey = kprevkey

\* C11: two calls of one memoized function whose parameter values, declared
\* defaults applied, differ in a parameter that is not ignored derive
\* different keys.
DistinctArgumentsDistinctKeys == kop = "other" => kkey # kprevkey

\* The same, for functions none of whose declared defaults is false in a
\* boolean context without being None.
DistinctArgumentsDistinctKeysTruthy ==
    (kop = "other"
       /\ \A p \in Range(kf.params) : p.hasdef => (Truthy(p.def) \/ p.def = None))
    => kkey # kprevkey

-----------------------------------------------------------------------------
(* The application: one decorated function, called and invalidated over time *)

Timeouts == {None, PyInt(2)}
Paths == {<<"/">>, <<"/", "a">>}

\* The decorated functions: f(a) with a timeout, f(a=0), f(a) with
\* args_to_ignore=["a"], A.f(self, a) with a timeout, A.f(self, a) with
\* args_to_ignore=["self"], and a view with and without a timeout.
Required == <<[name |-> "a", hasdef |-> FALSE, def |-> None]>>
Defaulted == <<[name |-> "a", hasdef |-> TRUE, def |-> PyInt(0)]>>
DecoratedFns ==
    {Fn("func", Required, FALSE, FALSE, PyInt(2), {}),
     Fn("func", Defaulted, FALSE, FALSE, None, {}),
     Fn("func", Required, FALSE, FALSE, None, {"a"}),
     Fn("method", Required, FALSE, FALSE, PyInt(2), {}),
     Fn("method", Required, FALSE, FALSE, None, {"self"})}
    \cup {Fn("view", <<>>, FALSE, FALSE, t, {}) : t \in Timeouts}

FnCalls(f) ==
    UNION {UNION {Splits(f, slf, asg, <<>>) : slf \in SelfChoices(f)}
           : asg \in Assignments(f)}

MemoEntries(store) == {k \in DOMAIN store : k[1] = "memo"}
VersionEntries(store) == {k \in DOMAIN store : k[1] = "ver"}
LiveVersions(store, t) == {k \in VersionEntries(store) : ~Expired(store[k], t)}

\* What the call would return from the store, Miss if it would invoke
Miss == <<"miss", 0>>
Outcome(r) == IF r.invoked THEN Miss ELSE r.rv
Served(store, t, tok, f, call) ==
    Outcome(decorated_function(store, t, tok, 0, f, call.args, call.kwargs))

EffectiveTimeout(t) == IF t = None THEN default_timeout ELSE t[2]

Init ==
    /\ func \in DecoratedFns
    /\ cache = EmptyCache
    /\ clock = 0
    /\ ntok = 1
    /\ nval = 0
    /\ log = <<>>
    /\ stale = {}
    /\ last = NoLast
    /\ KIdle

Record(r, op, slf, asg) ==
    /\ cache' = r.c
    /\ ntok' = r.tok
    /\ nval' = r.val
    /\ log' = IF r.invoked
              THEN Append(log, [slf |-> slf, asg |-> asg, time |-> clock])
              ELSE log
    /\ last' = [op |-> op, slf |-> slf, asg |-> asg, rv |-> r.rv, invoked |-> r.invoked]
    /\ UNCHANGED <<func, clock, stale>>
    /\ UNCHANGED kvars

\* a call of the memoized function, through an instance if it is a method
Called(r, op, slf, asg) ==
    /\ r.val <= MaxInvocations
    /\ r.tok <= MaxTokens
    /\ Record(r, op, slf, asg)

MemoCall ==
    /\ func.kind \in {"func", "method", "classmethod"}
    /\ \E call \in FnCalls(func) :
         Called(decorated_function(cache, clock, ntok, nval, func, call.args, call.kwargs),
                "call", SelfArgs(func, call), Effective(func, call))

\* a request for a path of the cached view
ViewCall ==
    /\ func.kind = "view"
    /\ \E path \in Paths :
         Called(cached_decorated_function(cache, clock, nval, func.cache_timeout, path)
                   @@ [tok |-> ntok],
                "view", <<>>, [path |-> PyStr(path)])

Invalidate(r, op, slf, asg, newstale) ==
    /\ ~r.err
    /\ r.tok <= MaxTokens
    /\ cache' = r.c
    /\ ntok' = r.tok
    /\ stale' = newstale
    /\ last' = [op |-> op, slf |-> slf, asg |-> asg, rv |-> None, invoked |-> FALSE]
    /\ UNCHANGED <<func, clock, nval, log>>
    /\ UNCHANGED kvars

\* cache.delete_memoized(f) / cache.delete_memoized(A.f)
DeleteMemoized ==
    /\ func.kind \in {"func", "method"}
    /\ Invalidate(delete_memoized(cache, clock, ntok, func, func, <<>>, <<>>),
                  "reset_function", <<>>, <<>>, 0..(nval - 1))

\* cache.delete_memoized(obj.f) for a method bound to an instance
DeleteMemoizedBound ==
    /\ func.kind = "method"
    /\ \E obj \in Instances :
         Invalidate(delete_memoized(cache, clock, ntok, func, BoundMethod(func, obj),
                                    <<>>, <<>>),
                    "reset_instance", <<obj>>, <<>>, stale)

\* cache.delete_memoized(f, *args, **kwargs), the arguments those of a call
DeleteMemoizedArgs ==
    /\ func.kind \in {"func", "method"}
    /\ \E call \in FnCalls(func) :
         Invalidate(delete_memoized(cache, clock, ntok, func, func, call.args, call.kwargs),
                    "delete_args", SelfArgs(func, call), Effective(func, call), stale)

\* time passes
Tick ==
    /\ clock < MaxTime
    /\ clock' = clock + 1
    /\ UNCHANGED <<func, cache, ntok, nval, log, stale, last>>
    /\ UNCHANGED kvars

Next ==
    \/ MemoCall
    \/ ViewCall
    \/ DeleteMemoized
    \/ DeleteMemoizedBound
    \/ DeleteMemoizedArgs
    \/ Tick

Spec == Init /\ [][Next]_vars

\* The application without invalidation: calls and the passing of time only
NextCalls ==
    \/ MemoCall
    \/ ViewCall
    \/ Tick

SpecCalls == Init /\ [][NextCalls]_vars

-----------------------------------------------------------------------------
(* A memoized classmethod: A.f(cls, a), called and invalidated by arguments *)

ClassmethodFns == {Fn("classmethod", Required, FALSE, FALSE, PyInt(2), {})}

InitClassmethod ==
    /\ func \in ClassmethodFns
    /\ cache = EmptyCache
    /\ clock = 0
    /\ ntok = 1
    /\ nval = 0
    /\ log = <<>>
    /\ stale = {}
    /\ last = NoLast
    /\ KIdle

\* delete_memoized ended in the exception exc
Raised(r, exc, slf, asg) ==
    /\ r.err
    /\ cache' = r.c
    /\ ntok' = r.tok
    /\ last' = [op |-> "delete_raised", slf |-> slf, asg |-> asg,
                rv |-> <<"exc", exc>>, invoked |-> FALSE]
    /\ UNCHANGED <<func, clock, nval, log, stale>>
    /\ UNCHANGED kvars

\* cache.delete_memoized(A.f, A, *args, **kwargs)
DeleteClassmethodArgs ==
    \E call \in FnCalls(func) :
       Invalidate(delete_memoized(cache, clock, ntok, func, func, call.args, call.kwargs),
                  "delete_args", SelfArgs(func, call), Effective(func, call), stale)

\* cache.delete_memoized(A.f, *args, **kwargs), the class left out
DeleteClassmethodNoClass ==
    \E call \in FnCalls(func) :
       Raised(delete_memoized(cache, clock, ntok, func, func,
                              OwnArgs(func, call), call.kwargs),
              cls_check(func, OwnArgs(func, call)), <<>>, Effective(func, call))

NextClassmethod ==
    \/ MemoCall
    \/ DeleteClassmethodArgs
    \/ DeleteClassmethodNoClass
    \/ Tick

SpecClassmethod == InitClassmethod /\ [][NextClassmethod]_vars

-----------------------------------------------------------------------------
(* Memoized functions whose version entry is deleted outright *)

InitMemo == Init /\ func.kind # "view"

\* cache.delete_memoized_verhash(f) / cache.delete_memoized_verhash(A.f)
DeleteMemoizedVerhash ==
    Invalidate(delete_memoized_verhash(cache, clock, ntok, func),
               "delete_verhash", <<>>, <<>>, 0..(nval - 1))

NextVerhash ==
    \/ MemoCall
    \/ DeleteMemoizedVerhash
    \/ Tick

SpecVerhash == InitMemo /\ [][NextVerhash]_vars

-----------------------------------------------------------------------------
(* Decorated functions with one option each, called in varying surroundings *)

\* f(a) or a view, decorated with timeout 2 and the option named by varies:
\* "unless" and "forced_update" give a predicate, "fail" a backend whose
\* operations may raise, "none" a wrapped function that returns None.
OptFn(kind, cache_none, response_filter, varies) ==
    Fn(kind, IF kind = "view" THEN <<>> ELSE Required, FALSE, FALSE, PyInt(2), {})
    @@ [cache_none |-> cache_none, response_filter |-> response_filter,
        returns_none |-> varies = "none", varies |-> varies]

OptionFns ==
    {OptFn(kind, FALSE, FALSE, v) :
        kind \in {"func", "view"}, v \in {"unless", "forced_update", "fail"}}
    \cup {OptFn(kind, FALSE, TRUE, "response_filter") : kind \in {"func", "view"}}
    \cup {OptFn("func", cn, FALSE, "none") : cn \in BOOLEAN}

\* what the predicate of a decorated function may return
PredicateVals == {PyTrue, PyFalse, PyInt(1)}

EnvChoices(fn) ==
    {[unless |-> u, forced_update |-> fu, accept |-> a, fail |-> fl] :
        u \in IF fn.varies = "unless" THEN PredicateVals ELSE {None},
        fu \in IF fn.varies = "forced_update" THEN PredicateVals ELSE {None},
        a \in IF fn.response_filter THEN BOOLEAN ELSE {TRUE},
        fl \in IF fn.varies = "fail" THEN {{}} \cup {{o} : o \in BackendOps} ELSE {{}}}

InitOptions ==
    /\ func \in OptionFns
    /\ cache = EmptyCache
    /\ clock = 0
    /\ ntok = 1
    /\ nval = 0
    /\ log = <<>>
    /\ stale = {}
    /\ last = NoLast
    /\ KIdle

CalledWith(r, op, env, slf, asg) ==
    /\ r.val <= MaxInvocations
    /\ r.tok <= MaxTokens
    /\ cache' = r.c
    /\ ntok' = r.tok
    /\ nval' = r.val
    /\ log' = IF r.invoked
              THEN Append(log, [slf |-> slf, asg |-> asg, time |-> clock,
                                forced |-> IsForced(env.forced_update),
                                stored |-> "set" \in r.ops \ env.fail])
              ELSE log
    /\ last' = [op |-> op, slf |-> slf, asg |-> asg, rv |-> r.rv, invoked |-> r.invoked,
                ops |-> r.ops, key |-> r.key, env |-> env]
    /\ UNCHANGED <<func, clock, stale>>
    /\ UNCHANGED kvars

\* a call of the memoized function
OptCall ==
    /\ func.kind = "func"
    /\ \E call \in FnCalls(func), env \in EnvChoices(func) :
         CalledWith(memoize_decorated_function(cache, clock, ntok, nval, func,
                                               call.args, call.kwargs, env),
                    "call", env, <<>>, Effective(func, call))

\* a request for a path of the cached view
OptViewCall ==
    /\ func.kind = "view"
    /\ \E path \in Paths, env \in EnvChoices(func) :
         CalledWith(cached_view_function(cache, clock, ntok, nval, func, path, env),
                    "view", env, <<>>, [path |-> PyStr(path)])

\* cache.clear()
ClearCache ==
    /\ cache # EmptyCache
    /\ cache' = EmptyCache
    /\ last' = [op |-> "clear", slf |-> <<>>, asg |-> <<>>, rv |-> None, invoked |-> FALSE]
    /\ UNCHANGED <<func, clock, ntok, nval, log, stale>>
    /\ UNCHANGED kvars

NextOptions ==
    \/ OptCall
    \/ OptViewCall
    \/ ClearCache
    \/ Tick

SpecOptions == InitOptions /\ [][NextOptions]_vars

-----------------------------------------------------------------------------
(* Memoized functions f(a) and f(a, b) called with and without an argument *)
(* for every parameter; None is among the values passed                    *)

RequiredFns ==
    {Fn("func", ps, FALSE, FALSE, PyInt(2), {}) :
        ps \in ParamSeqsOf(1, {<<FALSE, None>>}) \cup ParamSeqsOf(2, {<<FALSE, None>>})}

InitRequired ==
    /\ func \in RequiredFns
    /\ cache = EmptyCache
    /\ clock = 0
    /\ ntok = 1
    /\ nval = 0
    /\ log = <<>>
    /\ stale = {}
    /\ last = NoLast
    /\ KIdle

\* a call that passes every parameter
FullCall ==
    \E asg \in AssignmentsOver(func, DefVals) :
       \E call \in Splits(func, <<>>, asg, <<>>) :
          Called(decorated_function(cache, clock, ntok, nval, func, call.args, call.kwargs),
                 "call", <<>>, asg)

\* a call that leaves out a parameter
ShortCall ==
    \E S \in (SUBSET Range(OwnNames(func))) \ {Range(OwnNames(func))} :
       \E asg \in [S -> DefVals] :
          \E call \in Splits(func, <<>>, asg, <<>>) :
             Called(decorated_function(cache, clock, ntok, nval, func,
                                       call.args, call.kwargs),
                    "short_call", <<>>, asg)

NextRequired ==
    \/ FullCall
    \/ ShortCall
    \/ Tick

SpecRequired == InitRequired /\ [][NextRequired]_vars

-----------------------------------------------------------------------------
(* Properties of the application *)

Timeout == EffectiveTimeout(func.cache_timeout)
IsHit(l) == l.op \in {"call", "view"} /\ ~l.invoked /\ l.rv[1] = "res"
\* the calls of one instance with one assignment of the declared parameters
CallsOf(slf, asg) ==
    {call \in FnCalls(func) : SelfArgs(func, call) = slf /\ Effective(func, call) = asg}
\* the earlier invocations on the instance and assignment of the last call
Earlier == {v \in 1..(Len(log) - 1) : log[v].slf = last.slf /\ log[v].asg = last.asg}
InBackend(v) == \E k \in DOMAIN cache : cache[k].value = Dumps(Result(v - 1))

\* C1: after delete_memoized(f) without arguments every call of f invokes
\* the wrapped function again, and every entry stored for f is still in the
\* backend, unchanged.
ResetRecomputes ==
    [][(last'.op = "reset_function" /\ clock' = clock) =>
          /\ \A call \in FnCalls(func) :
                Served(cache', clock', ntok', func, call) = Miss
          /\ \A k \in MemoEntries(cache) : k \in DOMAIN cache' /\ cache'[k] = cache[k]]_vars

\* a call invoked the function again after delete_memoized(f), the result
\* stored before the invalidation still in the backend
ResetRecomputesWitness ==
    /\ func.kind = "func"
    /\ last.op = "call" /\ last.invoked
    /\ \E v \in Earlier : (v - 1) \in stale /\ InBackend(v)
                          /\ log[Len(log)].time < log[v].time + Timeout

\* what a step of delete_memoized(f, *args, **kwargs) is to bring about
DeleteArgsEffect ==
    /\ \A call \in CallsOf(last'.slf, last'.asg) :
          Served(cache', clock', ntok', func, call) = Miss
    /\ \A call \in FnCalls(func) \ CallsOf(last'.slf, last'.asg) :
          Served(cache', clock', ntok', func, call) = Served(cache, clock, ntok, func, call)
    /\ \A k \in LiveVersions(cache, clock) :
          k \in DOMAIN cache' /\ cache'[k].value = cache[k].value

\* C4: delete_memoized(f, *args, **kwargs) makes the calls with the
\* equivalent assignment recompute, leaves what every other call is served
\* as it was, and leaves the live version tokens as they were.
DeleteArgsRemovesOneEntry ==
    [][(last'.op = "delete_args" /\ clock' = clock) => DeleteArgsEffect]_vars

\* The same, for functions memoized without args_to_ignore whose parameters
\* have no defaults.
DeleteArgsRemovesOneEntryPlain ==
    [][(last'.op = "delete_args" /\ clock' = clock /\ func.args_to_ignore = {}
          /\ \A i \in 1..Len(func.params) : ~func.params[i].hasdef)
       => DeleteArgsEffect]_vars

\* C5: delete_memoized(obj.f) makes every call on obj recompute and leaves
\* what the calls on every other instance are served as it was.
BoundDeleteInvalidatesOneInstance ==
    [][(last'.op = "reset_instance" /\ clock' = clock) =>
          \A call \in FnCalls(func) :
             IF SelfArgs(func, call) = last'.slf
             THEN Served(cache', clock', ntok', func, call) = Miss
             ELSE Served(cache', clock', ntok', func, call)
                     = Served(cache, clock, ntok, func, call)]_vars

\* C6: after delete_memoized(A.f) no call on any instance is served a result
\* computed before the invalidation.
ClassDeleteInvalidatesEveryInstance ==
    (func.kind = "method" /\ IsHit(last)) => last.rv[2] \notin stale

\* a call on an instance recomputed a result that was invalidated by
\* delete_memoized(A.f) before its timeout
ClassDeleteWitness ==
    /\ func.kind = "method"
    /\ last.op = "call" /\ last.invoked
    /\ \E v \in Earlier : (v - 1) \in stale
                          /\ log[Len(log)].time < log[v].time + Timeout

\* C7 as stated: a call on one instance is never served a result computed
\* by a call on another instance.
InstancesNeverShare ==
    (func.kind = "method" /\ IsHit(last)) => log[last.rv[2] + 1].slf = last.slf

\* C7: unless "self" is in args_to_ignore, a call on one instance is never
\* served a result computed by a call on another instance.
InstancesNeverShareUnlessIgnored ==
    (func.kind = "method" /\ "self" \notin func.args_to_ignore /\ IsHit(last))
    => log[last.rv[2] + 1].slf = last.slf

\* a call on one instance invoked the method although the result of the same
\* arguments on another instance is being served to that instance
SeparateInstancesWitness ==
    /\ func.kind = "method" /\ "self" \notin func.args_to_ignore
    /\ last.op = "call" /\ last.invoked
    /\ \E v \in 1..(Len(log) - 1) :
          /\ log[v].slf # last.slf /\ log[v].asg = last.asg
          /\ \E call \in CallsOf(log[v].slf, log[v].asg) :
                Served(cache, clock, ntok, func, call) = Result(v - 1)

\* the call derives the key under which the v-th result is stored
StoredUnderKeyOf(v, call) ==
    \E k \in MemoEntries(cache) :
       cache[k].value = Dumps(Result(v - 1)) /\ k[2] = HashKey(PureKey(func, call))

\* C8: a result stored at time t with timeout T is served to every call
\* with the same key made before t + T, whatever was called before.
ServedUntilTimeout ==
    \A v \in 1..Len(log) : \A call \in FnCalls(func) :
       (func.kind # "view" /\ StoredUnderKeyOf(v, call) /\ clock < log[v].time + Timeout)
       => Served(cache, clock, ntok, func, call) = Result(v - 1)

\* C9: a decorated call is never served a result stored T or more ago.
ExpiredNeverServed ==
    [][(clock' = clock /\ IsHit(last')) =>
          clock' < log'[last'.rv[2] + 1].time + Timeout]_vars

\* a call invoked the function again because the result stored for it had
\* expired
ExpiredWitness ==
    /\ last.op \in {"call", "view"} /\ last.invoked
    /\ func.cache_timeout # None
    /\ \E v \in Earlier : log[Len(log)].time >= log[v].time + Timeout

\* C12: delete_memoized on a memoized classmethod with arguments that do not
\* start with the class raises ValueError and leaves the backend as it was;
\* with the class first it makes the addressed calls recompute and leaves
\* what every other call is served, and the version tokens, as they were.
ClassmethodDeleteNeedsClass ==
    [][/\ last'.op = "delete_raised" =>
             (last'.rv = <<"exc", "ValueError">> /\ cache' = cache /\ ntok' = ntok)
       /\ (last'.op = "delete_args" /\ clock' = clock) => DeleteArgsEffect]_vars

\* The same, for arguments without the class that include a positional one.
ClassmethodDeleteNeedsClassPositional ==
    [][/\ (last'.op = "delete_raised" /\ last'.rv # <<"exc", "IndexError">>) =>
             (last'.rv = <<"exc", "ValueError">> /\ cache' = cache /\ ntok' = ntok)
       /\ (last'.op = "delete_raised" /\ last'.rv = <<"exc", "IndexError">>) =>
             (cache' = cache /\ ntok' = ntok)
       /\ (last'.op = "delete_args" /\ clock' = clock) => DeleteArgsEffect]_vars

\* the version key of the decorated function
VersionKey == _memvname(function_namespace(func, <<>>).ns)

\* C13: delete_memoized_verhash(f) removes the version entry of f and writes
\* nothing; the call after it invokes the wrapped function, whatever its
\* arguments, and stores a version token never used before.
VerhashDeleteRegenerates ==
    [][/\ last'.op = "delete_verhash" =>
             /\ VersionKey \notin DOMAIN cache'
             /\ DOMAIN cache' \subseteq DOMAIN cache
             /\ \A k \in DOMAIN cache \ {VersionKey} :
                   k \in DOMAIN cache' /\ cache'[k] = cache[k]
       /\ (last.op = "delete_verhash" /\ last'.op = "call") =>
             /\ last'.invoked
             /\ VersionKey \in DOMAIN cache'
             /\ cache'[VersionKey].value = Dumps(_memoize_make_version_hash(ntok))]_vars

\* a call invoked the function again after delete_memoized_verhash(f)
\* although the result stored for its arguments was still in the backend
\* and had not timed out
VerhashDeleteWitness ==
    /\ last.op = "call" /\ last.invoked
    /\ VersionKey \in DOMAIN cache
    /\ \E v \in Earlier : (v - 1) \in stale /\ InBackend(v)
                          /\ log[Len(log)].time < log[v].time + Timeout

IsCall(l) == l.op \in {"call", "view"}

\* C14: when unless returns True the call invokes the wrapped function and
\* makes no backend operation: no entry and no version token is created or
\* rewritten, and the result is not stored.
UnlessBypassesBackend ==
    [][(IsCall(last') /\ last'.env.unless = PyTrue) =>
          /\ last'.invoked
          /\ last'.ops = {}
          /\ cache' = cache
          /\ ntok' = ntok]_vars

\* a call was bypassed although the result of an earlier call with its
\* arguments was stored and had not timed out
UnlessBypassWitness ==
    /\ IsCall(last) /\ last.env.unless = PyTrue /\ last.invoked
    /\ \E v \in Earlier : log[v].stored /\ InBackend(v)
                          /\ log[Len(log)].time < log[v].time + Timeout

\* the invocations on the arguments of the operation l
SameArgs(l, lg) == {v \in 1..Len(lg) : lg[v].slf = l.slf /\ lg[v].asg = l.asg}

\* C15: when forced_update returns True the call makes no lookup, invokes
\* the wrapped function and leaves its result under the key; a call that is
\* served from the cache is served the result computed last for its
\* arguments.
ForcedUpdateOverwrites ==
    [][/\ (IsCall(last') /\ last'.env.forced_update = PyTrue) =>
             /\ last'.invoked
             /\ last'.ops \cap {"get", "has"} = {}
             /\ last'.key \in DOMAIN cache'
             /\ cache'[last'.key].value = Dumps(last'.rv)
       /\ (func.varies = "forced_update" /\ IsHit(last')) =>
             \A v \in SameArgs(last', log') : v <= last'.rv[2] + 1]_vars

\* a call is served the result of a forced update that replaced a result
\* which had not timed out
ForcedUpdateWitness ==
    /\ IsHit(last) /\ last.env.forced_update = PyFalse
    /\ log[last.rv[2] + 1].forced
    /\ \E v \in SameArgs(last, log) :
          /\ v < last.rv[2] + 1
          /\ log[last.rv[2] + 1].time < log[v].time + Timeout

\* C16: with cache_none false a decorated call never checks the existence of
\* its key, and a wrapped function that returns None is invoked by every
\* decorated call.
NoneIsAlwaysMiss ==
    (IsCall(last) /\ ~func.cache_none) =>
        /\ "has" \notin last.ops
        /\ func.returns_none => last.invoked

\* a function that returns None was invoked although the None an earlier
\* call with the same arguments stored is in the backend and has not timed out
NoneIsAlwaysMissWitness ==
    /\ IsCall(last) /\ ~func.cache_none /\ func.returns_none /\ last.invoked
    /\ "set_many" \notin last.ops
    /\ CacheHas(cache, clock, last.key)
    /\ \E v \in Earlier : log[v].stored
                          /\ log[Len(log)].time < log[v].time + Timeout

\* C17: with cache_none true a call is served None from the cache, the
\* wrapped function not invoked, exactly when an entry that has not timed
\* out is stored under its key; otherwise the function is invoked.
CachedNoneIsServed ==
    [][(IsCall(last') /\ func.cache_none /\ clock' = clock
          /\ (last' # last \/ nval' # nval)) =>
          IF CacheHas(cache, clock, last'.key)
          THEN ~last'.invoked /\ last'.rv = None /\ nval' = nval
          ELSE last'.invoked /\ CacheHas(cache', clock', last'.key)]_vars

\* a call was served the None an earlier call stored
CachedNoneWitness ==
    /\ IsCall(last) /\ func.cache_none /\ func.returns_none
    /\ ~last.invoked /\ last.rv = None /\ Len(log) > 0

\* the function was invoked again after the None it had stored for the same
\* arguments was removed or had timed out
CachedNoneRemovedWitness ==
    /\ IsCall(last) /\ func.cache_none /\ func.returns_none /\ last.invoked
    /\ Earlier # {}

\* C18: a result the response_filter rejects is returned and not stored: set
\* is not called, no entry but version tokens is written, and no entry is
\* live under the key of the call; a result it accepts is stored under that
\* key.
RejectedResultNotStored ==
    [][(IsCall(last') /\ func.response_filter /\ last'.invoked
          /\ (last' # last \/ nval' # nval)) =>
          /\ last'.rv = Result(nval)
          /\ IF last'.env.accept
             THEN /\ last'.key \in DOMAIN cache'
                  /\ cache'[last'.key].value = Dumps(last'.rv)
             ELSE /\ "set" \notin last'.ops
                  /\ \A k \in DOMAIN cache' \ VersionEntries(cache') :
                        k \in DOMAIN cache /\ cache'[k] = cache[k]
                  /\ ~CacheHas(cache', clock', last'.key)]_vars

\* a call returned a result the filter rejected, and a second call with the
\* same arguments computed another
RejectedResultWitness ==
    /\ IsCall(last) /\ func.response_filter /\ last.invoked
    /\ ~last.env.accept
    /\ ~CacheHas(cache, clock, last.key)
    /\ \E v \in Earlier : ~log[v].stored /\ log[v].time = clock

\* C19: outside debug mode a decorated call in which a backend operation
\* raised returns what the wrapped function returns for its arguments; no
\* entry but version tokens is written, and set is called only if the
\* operation that raised is set itself.
BackendFailureIsAbsorbed ==
    [][(IsCall(last') /\ last'.ops \cap last'.env.fail # {}
          /\ (last' # last \/ nval' # nval)) =>
          /\ last'.invoked
          /\ last'.rv = Result(nval)
          /\ \A k \in DOMAIN cache' \ VersionEntries(cache') :
                k \in DOMAIN cache /\ cache'[k] = cache[k]
          /\ last'.env.fail # {"set"} => "set" \notin last'.ops]_vars

\* the lookup raised while a result was stored under the key of the call,
\* and the call returned a result computed anew
BackendFailureWitness ==
    /\ IsCall(last) /\ last.env.fail = {"get"} /\ "get" \in last.ops
    /\ last.invoked
    /\ CacheHas(cache, clock, last.key)
    /\ cache[last.key].value # Dumps(last.rv)

\* C20: a memoized call that leaves out a parameter without default raises
\* TypeError, whatever the backend holds.
MissingArgumentRaises == last.op = "short_call" => last.rv = TypeError

\* The same, as long as no call has passed None for a parameter.
MissingArgumentRaisesWithoutNone ==
    (last.op = "short_call"
       /\ \A v \in 1..Len(log) : \A n \in DOMAIN log[v].asg : log[v].asg[n] # None)
    => last.rv = TypeError

-----------------------------------------------------------------------------
(* cached(query_string=True): the key of a request *)

MaxQuery == 3       \* (name, value) pairs in a query string

\* str comparison: by code point, a proper prefix first
CharOrder == <<"1", "2", "a", "b">>
CharIdx(ch) == CHOOSE i \in 1..Len(CharOrder) : CharOrder[i] = ch
RECURSIVE StrLess(_, _)
StrLess(s, t) ==
    IF Len(t) = 0 THEN FALSE
    ELSE IF Len(s) = 0 THEN TRUE
    ELSE IF Head(s) = Head(t) THEN StrLess(Tail(s), Tail(t))
    ELSE CharIdx(Head(s)) < CharIdx(Head(t))

\* tuple comparison of two (name, value) pairs
PairLess(p, q) == StrLess(p[1], q[1]) \/ (p[1] = q[1] /\ StrLess(p[2], q[2]))

\* the pairs left in the order the request gave them
Unsorted(pairs) == pairs

\* sorted(pair for pair in request.args.items(multi=True))
SortedPairs(pairs) == SortSeq(pairs, PairLess)

\* str() of a tuple of (name, value) tuples
StrPairs(t) ==
    <<"(">> \o JoinSeqs(<<", ">>,
                        [i \in 1..Len(t) |->
                           <<"(">> \o Repr(PyStr(t[i][1])) \o <<", ">>
                                   \o Repr(PyStr(t[i][2])) \o <<")">>])
            \o (IF Len(t) = 1 THEN <<",">> ELSE <<>>) \o <<")">>

\* request.path + hexdigest of the sorted pairs
_make_cache_key_query_string(path, pairs) ==
    <<"view", path \o <<HashKey(StrPairs(SortedPairs(pairs)))>>>>

QueryNames == {<<"a">>, <<"b">>}
QueryValues == {<<"1">>, <<"1", "2">>}
QueryPairs == QueryNames \X QueryValues
Queries == UNION {[1..n -> QueryPairs] : n \in 0..MaxQuery}

\* how often a pair occurs in a query string
Occurrences(q, pr) == Cardinality({i \in 1..Len(q) : q[i] = pr})
SameMultiset(q, r) == \A pr \in QueryPairs : Occurrences(q, pr) = Occurrences(r, pr)

NoRequest == [path |-> <<>>, query |-> <<>>, prev |-> <<>>]

QInit ==
    /\ kf = NoFn
    /\ kcall = NoRequest
    /\ kkey = <<>>
    /\ kprevkey = <<>>
    /\ kop = "new"
    /\ SIdle

QDerive(path, query, op) ==
    /\ kcall' = [path |-> path, query |-> query, prev |-> kcall.query]
    /\ kkey' = _make_cache_key_query_string(path, query)
    /\ kprevkey' = kkey
    /\ kop' = op
    /\ UNCHANGED kf
    /\ UNCHANGED svars

\* a first request
QRequest ==
    /\ kop = "new"
    /\ \E path \in Paths, q \in Queries : QDerive(path, q, "request")

\* the same path with the same pairs in another order
QReorder ==
    /\ kop = "request"
    /\ \E q \in Queries :
         /\ SameMultiset(q, kcall.query)
         /\ QDerive(kcall.path, q, "reordered")

\* the same path with other pairs
QOther ==
    /\ kop = "request"
    /\ \E q \in Queries :
         /\ ~SameMultiset(q, kcall.query)
         /\ QDerive(kcall.path, q, "other")

QNext == QRequest \/ QReorder \/ QOther

SpecQuery == QInit /\ [][QNext]_vars

\* C21: with query_string=True and a fixed path, two requests get the same
\* key exactly when their query strings hold the same multiset of
\* (name, value) pairs: any reordering keeps the key, any other multiset
\* changes it.
QueryKeyDependsOnMultiset ==
    /\ kop = "reordered" => kkey = kprevkey
    /\ kop = "other" => kkey # kprevkey

\* a repeated name with two values, given in the other order
QueryKeyWitness ==
    /\ kop = "reordered"
    /\ Len(kcall.query) >= 2
    /\ kcall.query # kcall.prev
    /\ \E i, j \in 1..Len(kcall.query) :
         kcall.query[i][1] = kcall.query[j][1] /\ kcall.query[i][2] # kcall.query[j][2]
    /\ kkey = kprevkey

-----------------------------------------------------------------------------
(* decorated.make_cache_key called by the application *)

\* decorated.make_cache_key(decorated.uncached, *args, **kwargs)
MakeCacheKey ==
    /\ \E call \in FnCalls(func) :
         \E r \in {make_cache_key(cache, clock, ntok, func, func, call.args, call.kwargs)} :
            /\ ~r.err
            /\ r.tok <= MaxTokens
            /\ cache' = r.c
            /\ ntok' = r.tok
            /\ last' = [op |-> "make_cache_key", slf |-> SelfArgs(func, call),
                        asg |-> Effective(func, call), rv |-> r.key, invoked |-> FALSE]
    /\ UNCHANGED <<func, clock, nval, log, stale>>
    /\ UNCHANGED kvars

NextMakeKey ==
    \/ MemoCall
    \/ MakeCacheKey
    \/ DeleteMemoized
    \/ Tick

SpecMakeKey == InitMemo /\ [][NextMakeKey]_vars

\* the stored results of calls made at this time and not reset since, as
\* <<key, index in log>>
FreshResults ==
    {e \in MemoEntries(cache) \X (1..Len(log)) :
        /\ cache[e[1]].value = Dumps(Result(e[2] - 1))
        /\ log[e[2]].time = clock
        /\ (e[2] - 1) \notin stale}

\* whether the call logged as l ran with the arguments last names
SameAssignment(l) == l.slf = last.slf /\ l.asg = last.asg
DifferentAssignment(l) ==
    \/ l.slf # last.slf /\ "self" \notin func.args_to_ignore
    \/ \E n \in DOMAIN l.asg \ func.args_to_ignore : l.asg[n] # last.asg[n]

\* C22: make_cache_key(uncached, *args, **kwargs) returns the key under
\* which a decorated call with an equivalent argument assignment stored its
\* result (no reset or expiry in between), and a different key for a call
\* with a different assignment.
MakeCacheKeyNamesStoredKey ==
    last.op = "make_cache_key" =>
        \A e \in FreshResults :
           /\ SameAssignment(log[e[2]]) => e[1] = last.rv
           /\ DifferentAssignment(log[e[2]]) => e[1] # last.rv

\* The same for functions memoized without args_to_ignore and without
\* declared defaults.
MakeCacheKeyNamesStoredKeyPlain ==
    (func.args_to_ignore = {} /\ \A i \in 1..Len(func.params) : ~func.params[i].hasdef)
    => MakeCacheKeyNamesStoredKey

\* make_cache_key named the key of a stored result without a call
MakeCacheKeyWitness ==
    /\ last.op = "make_cache_key"
    /\ \E e \in FreshResults : SameAssignment(log[e[2]]) /\ e[1] = last.rv
    /\ nval = Len(log)

-----------------------------------------------------------------------------
(* decorated.cache_timeout assigned after decoration *)

AssignedTimeouts == Timeouts \cup {PyInt(1)}

\* decorated.cache_timeout = t
SetCacheTimeout ==
    /\ \E t \in AssignedTimeouts :
         /\ t # func.cache_timeout
         /\ func' = [func EXCEPT !.cache_timeout = t]
         /\ last' = [op |-> "set_timeout", slf |-> <<>>, asg |-> <<>>, rv |-> t,
                     invoked |-> FALSE]
    /\ UNCHANGED <<cache, clock, ntok, nval, log, stale>>
    /\ UNCHANGED kvars

NextTimeout ==
    \/ MemoCall
    \/ ViewCall
    \/ SetCacheTimeout
    \/ Tick

SpecTimeout == Init /\ [][NextTimeout]_vars

\* the result the last call computed and stored, while the clock stands
JustStored(k) ==
    /\ last.op \in {"call", "view"}
    /\ last.invoked
    /\ log[Len(log)].time = clock
    /\ k \in DOMAIN cache
    /\ k[1] \in {"memo", "view"}
    /\ cache[k].value = Dumps(last.rv)

\* C23: a result is stored with the TTL decorated.cache_timeout has at the
\* time of the call (None: the backend's default), so it expires that long
\* after the call whatever the timeout given at decoration.
StoredWithCurrentTimeout ==
    \A k \in DOMAIN cache :
       JustStored(k) => cache[k].expires = clock + EffectiveTimeout(func.cache_timeout)

\* a result stored after the timeout was assigned anew, with a result stored
\* before still in the store under the earlier TTL
StoredWithCurrentTimeoutWitness ==
    /\ Len(log) = 2
    /\ \E k \in DOMAIN cache :
         /\ JustStored(k)
         /\ cache[k].expires = clock + EffectiveTimeout(func.cache_timeout)
         /\ \E j \in DOMAIN cache :
              /\ j[1] = k[1]
              /\ cache[j].value = Dumps(Result(0))
              /\ cache[j].expires - log[1].time # EffectiveTimeout(func.cache_timeout)

-----------------------------------------------------------------------------
(* A cached view that returns a CachedResponse *)

\* CachedResponse(response=..., timeout=...): a response tagged with its own
\* timeout
CachedResponse(response, timeout) == <<"cached_response", response, timeout>>
ResponseTimeouts == {PyInt(1)}

\* (variant: the timeout of the response is not looked at)
DecoratorTimeoutOnly(rv, cache_timeout) == cache_timeout

\* the TTL a result is stored with
StoreTimeout(rv, cache_timeout) ==
    IF rv[1] = "cached_response" THEN rv[3] ELSE cache_timeout

\* the wrapped view: a plain response, or one wrapped with the timeout wrap
ViewResponse(val, wrap) ==
    IF wrap = None THEN Result(val) ELSE CachedResponse(Result(val), wrap)

\* decorated_function of cached for such a view. [c, val, rv, invoked]
DynamicLookup(c, now, val, cache_timeout, cache_key, got, rv) ==
    IF got # None
    THEN [c |-> c, val |-> val, rv |-> got, invoked |-> FALSE]
    ELSE [c |-> CacheSet(c, now, cache_key, rv, StoreTimeout(rv, cache_timeout)),
          val |-> val + 1, rv |-> rv, invoked |-> TRUE]

InitView == Init /\ func.kind = "view"

\* a request for a path of the view
DynamicViewCall ==
    /\ \E path \in Paths, wrap \in {None} \cup ResponseTimeouts :
         Called(DynamicLookup(cache, clock, nval, func.cache_timeout,
                              view_make_cache_key(path),
                              CacheGet(cache, clock, view_make_cache_key(path)),
                              ViewResponse(nval, wrap))
                   @@ [tok |-> ntok],
                "view", <<>>, [path |-> PyStr(path)])

NextDynamic ==
    \/ DynamicViewCall
    \/ Tick

SpecDynamic == InitView /\ [][NextDynamic]_vars

-----------------------------------------------------------------------------
(* BaseCache.delete_many *)

MaxKeys == 3        \* keys passed to one delete_many

PlainKeys == {<<"plain", "hi">>, <<"plain", "ho">>}
KeySeqs == UNION {[1..n -> PlainKeys] : n \in 1..MaxKeys}

\* what SimpleCache.delete returns: whether the key was in the store
Deleted(c, key) == key \in DOMAIN c

\* (variant: every key is attempted whatever the configuration)
RECURSIVE DeleteEvery(_, _, _)
DeleteEvery(c, keys, ignore_errors) ==
    IF Len(keys) = 0 THEN [c |-> c, rv |-> TRUE]
    ELSE [DeleteEvery(CacheDelete(c, keys[1]), Tail(keys), ignore_errors)
            EXCEPT !.rv = @ /\ Deleted(c, keys[1])]

\* all([...]) over every key with ignore_errors, all(...) over a generator,
\* which ends at the first False, without. [c, rv]
RECURSIVE delete_many(_, _, _)
delete_many(c, keys, ignore_errors) ==
    IF Len(keys) = 0 THEN [c |-> c, rv |-> TRUE]
    ELSE IF Deleted(c, keys[1]) \/ ignore_errors
    THEN [delete_many(CacheDelete(c, keys[1]), Tail(keys), ignore_errors)
            EXCEPT !.rv = @ /\ Deleted(c, keys[1])]
    ELSE [c |-> c, rv |-> FALSE]

\* a Cache configured with CACHE_IGNORE_ERRORS, no function decorated
InitBackend ==
    /\ func \in {[ignore_errors |-> b] @@ NoFn : b \in BOOLEAN}
    /\ cache = EmptyCache
    /\ clock = 0
    /\ ntok = 1
    /\ nval = 0
    /\ log = <<>>
    /\ stale = {}
    /\ last = NoLast
    /\ KIdle

\* cache.set(key, value)
SetKey ==
    /\ \E key \in PlainKeys, v \in ArgVals :
         /\ cache' = CacheSet(cache, clock, key, v, None)
         /\ last' = [op |-> "set", slf |-> <<>>, asg |-> <<key>>, rv |-> PyTrue,
                     invoked |-> FALSE]
    /\ UNCHANGED <<func, clock, ntok, nval, log, stale>>
    /\ UNCHANGED kvars

\* cache.delete_many(*keys); last keeps the store it ran on
DeleteMany ==
    /\ \E keys \in KeySeqs :
         \E r \in {delete_many(cache, keys, func.ignore_errors)} :
            /\ cache' = r.c
            /\ last' = [op |-> "delete_many", slf |-> <<>>, asg |-> keys,
                        rv |-> <<"bool", r.rv>>, invoked |-> FALSE, before |-> cache]
    /\ UNCHANGED <<func, clock, ntok, nval, log, stale>>
    /\ UNCHANGED kvars

NextBackend ==
    \/ SetKey
    \/ DeleteMany

SpecBackend == InitBackend /\ [][NextBackend]_vars

\* the positions of keys whose delete reports failure: the key is not in the
\* store before, or an earlier position already removed it
FailingAt(before, keys) ==
    {i \in 1..Len(keys) :
        keys[i] \notin DOMAIN before \/ \E j \in 1..(i - 1) : keys[j] = keys[i]}
\* the keys delete_many gets to
Attempted(before, keys, ignore_errors) ==
    {keys[i] : i \in {j \in 1..Len(keys) :
                        ignore_errors \/ \A f \in FailingAt(before, keys) : j <= f}}

\* C25: without ignore_errors delete_many stops at the first key whose delete
\* reports failure and leaves the later keys stored; with ignore_errors it
\* attempts every key.
DeleteManyStopsAtFailure ==
    last.op = "delete_many" =>
        /\ DOMAIN cache = DOMAIN last.before \ Attempted(last.before, last.asg, func.ignore_errors)
        /\ \A k \in DOMAIN cache : cache[k] = last.before[k]

\* a missing key before a stored one, which stays without ignore_errors
DeleteManyStopsWitness ==
    /\ last.op = "delete_many"
    /\ ~func.ignore_errors
    /\ Len(last.asg) >= 2
    /\ last.asg[1] \notin DOMAIN last.before
    /\ last.asg[2] \in DOMAIN last.before
    /\ last.asg[2] \in DOMAIN cache

\* the same keys with ignore_errors: the stored one is deleted
DeleteManyIgnoredWitness ==
    /\ last.op = "delete_many"
    /\ func.ignore_errors
    /\ Len(last.asg) >= 2
    /\ last.asg[1] \notin DOMAIN last.before
    /\ last.asg[2] \in DOMAIN last.before
    /\ last.asg[2] \notin DOMAIN cache

-----------------------------------------------------------------------------
(* memoize(source_check=...) and CACHE_SOURCE_CHECK *)

Sources == {<<"return a + 1">>, <<"return a + 2">>}
SourceChecks == {None, PyTrue, PyFalse}

\* The source_check make_cache_key tests: the parameter _memoize_make_cache_key
\* received when the function was decorated. decorated_function rebinds
\* memoize's own source_check to the configured value at a call, which this
\* parameter does not follow.
BoundSourceCheck(source_check, config) == source_check

\* cache_key.update(updated), then cache_key.update(func_source_code) if
\* source_check
SourceKeyString(updated, source_check, source) ==
    IF source_check = PyTrue THEN updated \o source ELSE updated

\* The string the key of a call is the hash of, with source checking
SourcePureKey(fn, call) ==
    SourceKeyString(PureKey(fn, call),
                    BoundSourceCheck(fn.source_check,
                                     IF fn.config THEN PyTrue ELSE PyFalse),
                    fn.source)

\* a function with a source text, memoized with or without source_check by
\* a Cache configured with CACHE_SOURCE_CHECK = config
SInit ==
    /\ \E n \in 0..MaxParams, va \in BOOLEAN, src \in Sources, sc \in SourceChecks,
          config \in BOOLEAN :
         \E ps \in ParamSeqs(n) :
            kf = [source |-> src, source_check |-> sc, config |-> config]
                   @@ Fn("func", ps, va, FALSE, None, {})
    /\ kcall = NoCall
    /\ kkey = <<>>
    /\ kprevkey = <<>>
    /\ kop = "new"
    /\ SIdle

\* a call of the memoized function
SCall ==
    /\ kop = "new"
    /\ \E asg \in Assignments(kf) :
         \E xs \in Surpluses(kf, asg) :
            \E call \in Splits(kf, <<>>, asg, xs) :
               /\ kcall' = call
               /\ kkey' = SourcePureKey(kf, call)
    /\ kprevkey' = kkey
    /\ kop' = "call"
    /\ UNCHANGED kf
    /\ UNCHANGED svars

\* the same call after the body of the function was edited
SEdit ==
    /\ kop = "call"
    /\ \E src \in Sources \ {kf.source} :
         /\ kf' = [kf EXCEPT !.source = src]
         /\ kkey' = SourcePureKey(kf', kcall)
    /\ kprevkey' = kkey
    /\ kop' = "edited"
    /\ UNCHANGED kcall
    /\ UNCHANGED svars

SNext == SCall \/ SEdit

SpecSource == SInit /\ [][SNext]_vars

\* whether the key is to embed the source
SourceWanted ==
    IF kf.source_check = None THEN kf.config ELSE kf.source_check = PyTrue

\* C26: the key of a memoized call embeds the function's source (an edit of
\* the source changes the key) exactly when source_check is True, or is not
\* given while CACHE_SOURCE_CHECK is true.
SourceEmbeddedWhenConfigured ==
    kop = "edited" => ((kkey # kprevkey) <=> SourceWanted)

\* The same where source_check is given explicitly.
SourceEmbeddedWhenExplicit ==
    (kop = "edited" /\ kf.source_check # None) => ((kkey # kprevkey) <=> SourceWanted)

\* an explicit source_check=False overriding the configuration
SourceExplicitWitness ==
    /\ kop = "edited"
    /\ kf.source_check = PyFalse
    /\ kf.config
    /\ kkey = kprevkey

-----------------------------------------------------------------------------
(* The template tag {% cache timeout, fragment_name, vary_on... %} *)

\* TEMPLATE_FRAGMENT_KEY_TEMPLATE % (fragment_name, "_".join(vary_on)), the
\* name followed by "_" if vary_on is not empty
make_template_fragment_key(fragment_name, vary_on) ==
    <<"fragment",
      <<"_template_fragment_cache_">> \o fragment_name
         \o (IF Len(vary_on) > 0 THEN <<"_">> ELSE <<>>)
         \o JoinSeqs(<<"_">>, vary_on)>>

Del == PyStr(<<"d", "e", "l">>)
FragmentNames == {<<"f", "1">>, <<"f", "2">>}
VaryOns == {<<>>, <<<<"k">>>>}
BlockTimeouts == {Del, PyInt(1), PyInt(2)}

\* rv = cache.get(key); if rv is None: rv = caller(); cache.set(key, rv,
\* timeout). [c, val, rv, invoked]
FragmentLookup(c, now, val, timeout, key, rv) ==
    IF rv # None
    THEN [c |-> c, val |-> val, rv |-> rv, invoked |-> FALSE]
    ELSE [c |-> CacheSet(c, now, key, Result(val), timeout),
          val |-> val + 1, rv |-> Result(val), invoked |-> TRUE]

\* (variant: 'del' is not told from a timeout)
CacheBlockNoDelete(c, now, val, timeout, key) ==
    FragmentLookup(c, now, val, PyInt(1), key, CacheGet(c, now, key))

\* CacheExtension._cache for the key of the fragment; caller() renders the
\* body, each rendering a text of its own
_cache(c, now, val, timeout, key) ==
    IF timeout = Del
    THEN [c |-> CacheDelete(c, key), val |-> val + 1, rv |-> Result(val),
          invoked |-> TRUE]
    ELSE FragmentLookup(c, now, val, timeout, key, CacheGet(c, now, key))

\* a template with cache blocks, no function decorated
InitTemplate ==
    /\ func = NoFn
    /\ cache = EmptyCache
    /\ clock = 0
    /\ ntok = 1
    /\ nval = 0
    /\ log = <<>>
    /\ stale = {}
    /\ last = NoLast
    /\ KIdle

\* a cache block is rendered; last keeps the store it ran on
RenderBlock ==
    /\ \E name \in FragmentNames, vary_on \in VaryOns, timeout \in BlockTimeouts :
         \E r \in {_cache(cache, clock, nval, timeout,
                          make_template_fragment_key(name, vary_on))} :
            /\ r.val <= MaxInvocations + 1
            /\ cache' = r.c
            /\ nval' = r.val
            /\ last' = [op |-> "render", slf |-> <<>>,
                        asg |-> [name |-> name, vary_on |-> vary_on, timeout |-> timeout],
                        rv |-> r.rv, invoked |-> r.invoked, before |-> cache,
                        time |-> clock,
                        key |-> make_template_fragment_key(name, vary_on)]
    /\ UNCHANGED <<func, clock, ntok, log, stale>>
    /\ UNCHANGED kvars

NextTemplate ==
    \/ RenderBlock
    \/ Tick

SpecTemplate == InitTemplate /\ [][NextTemplate]_vars

\* the keys besides that of the block rendered last are as they were
OtherKeysUntouched ==
    /\ DOMAIN cache \ {last.key} = DOMAIN last.before \ {last.key}
    /\ \A k \in DOMAIN cache \ {last.key} : cache[k] = last.before[k]

\* C27: a cache block with timeout 'del' deletes the key of its fragment and
\* renders the body without a read or a store; with another timeout the body
\* is rendered and stored only when the key reads absent; the keys of other
\* fragments are untouched either way.
CacheBlockEffect ==
    last.op = "render" =>
        /\ OtherKeysUntouched
        /\ IF last.asg.timeout = Del
           THEN last.key \notin DOMAIN cache /\ last.invoked
           ELSE IF CacheGet(last.before, last.time, last.key) = None
           THEN /\ last.invoked
                /\ cache[last.key] =
                      [expires |-> last.time + last.asg.timeout[2],
                       value |-> Dumps(last.rv)]
           ELSE /\ ~last.invoked
                /\ last.rv = CacheGet(last.before, last.time, last.key)
                /\ cache[last.key] = last.before[last.key]

\* 'del' removes a stored fragment and leaves another one stored
CacheBlockDelWitness ==
    /\ last.op = "render"
    /\ last.asg.timeout = Del
    /\ last.key \in DOMAIN last.before
    /\ last.key \notin DOMAIN cache
    /\ DOMAIN cache # {}

-----------------------------------------------------------------------------
(* Results of several shapes, served from the store *)

Shapes == {"scalar", "list1", "list2", "list3", "tuple2"}

\* what the val-th invocation of a function returning the shape returns
Shaped(val, shape) ==
    CASE shape = "scalar" -> Result(val)
      [] shape = "list1" -> <<"list", <<Result(val)>>>>
      [] shape = "list2" -> <<"list", <<Result(val), PyInt(0)>>>>
      [] shape = "list3" -> <<"list", <<Result(val), PyInt(0), PyInt(1)>>>>
      [] shape = "tuple2" -> <<"tuple", <<Result(val), PyInt(0)>>>>

\* (variant: a list read from the store is returned as the list)
KeepList(force_tuple, rv) == rv

\* cached: elif force_tuple and isinstance(rv, list) and len(rv) == 2:
\*             rv = tuple(rv)
ForceTuple(force_tuple, rv) ==
    IF force_tuple /\ rv[1] = "list" /\ Len(rv[2]) = 2 THEN <<"tuple", rv[2]>> ELSE rv

\* decorated_function of cached (a view) and of memoize after cache.get
\* returned got. [c, tok, val, rv, invoked, key]
ShapedLookup(c, tok, now, val, fn, key, got) ==
    IF got # None
    THEN [c |-> c, tok |-> tok, val |-> val,
          rv |-> IF fn.kind = "view" THEN ForceTuple(fn.force_tuple, got) ELSE got,
          invoked |-> FALSE, key |-> key]
    ELSE [c |-> CacheSet(c, now, key, Shaped(val, fn.shape), fn.cache_timeout),
          tok |-> tok, val |-> val + 1, rv |-> Shaped(val, fn.shape),
          invoked |-> TRUE, key |-> key]

ShapedKeyLookup(kr, now, val, fn) ==
    ShapedLookup(kr.c, kr.tok, now, val, fn, kr.key, CacheGet(kr.c, now, kr.key))

\* f(a) memoized and a view cached, with and without force_tuple, returning
\* one of the shapes
ShapeFns ==
    {[shape |-> s, force_tuple |-> ft]
        @@ Fn(kind, IF kind = "view" THEN <<>> ELSE Required, FALSE, FALSE, PyInt(2), {}) :
       kind \in {"func", "view"}, s \in Shapes, ft \in BOOLEAN}

InitShapes ==
    /\ func \in ShapeFns
    /\ cache = EmptyCache
    /\ clock = 0
    /\ ntok = 1
    /\ nval = 0
    /\ log = <<>>
    /\ stale = {}
    /\ last = NoLast
    /\ KIdle

ShapedCalled(r, op, asg) ==
    /\ r.val <= MaxInvocations
    /\ r.tok <= MaxTokens
    /\ cache' = r.c
    /\ ntok' = r.tok
    /\ nval' = r.val
    /\ log' = IF r.invoked
              THEN Append(log, [slf |-> <<>>, asg |-> asg, time |-> clock])
              ELSE log
    /\ last' = [op |-> op, slf |-> <<>>, asg |-> asg, rv |-> r.rv,
                invoked |-> r.invoked, key |-> r.key]
    /\ UNCHANGED <<func, clock, stale>>
    /\ UNCHANGED kvars

\* a call of the memoized function
ShapedMemoCall ==
    /\ func.kind = "func"
    /\ \E call \in FnCalls(func) :
         \E kr \in {make_cache_key(cache, clock, ntok, func, func, call.args, call.kwargs)} :
            /\ ~kr.err
            /\ ShapedCalled(ShapedKeyLookup(kr, clock, nval, func), "call",
                            Effective(func, call))

\* a request for a path of the cached view
ShapedViewCall ==
    /\ func.kind = "view"
    /\ \E path \in Paths :
         ShapedCalled(ShapedLookup(cache, ntok, clock, nval, func,
                                   view_make_cache_key(path),
                                   CacheGet(cache, clock, view_make_cache_key(path))),
                      "view", [path |-> PyStr(path)])

NextShapes ==
    \/ ShapedMemoCall
    \/ ShapedViewCall
    \/ Tick

SpecShapes == InitShapes /\ [][NextShapes]_vars

\* the last call was served from the store
ServedFromStore == last.op \in {"call", "view"} /\ ~last.invoked

\* the value the wrapped function returned when the entry of last.key was
\* stored
StoredReturn ==
    Shaped((CHOOSE v \in 1..Len(log) :
               cache[last.key].value = Dumps(Shaped(v - 1, func.shape))) - 1,
           func.shape)

\* C28 as stated: a call served from the store returns the value the wrapped
\* function returned when the entry was stored, whatever its shape.
ServedValueAsStored ==
    ServedFromStore => last.rv = StoredReturn

\* C28: a call served from the store returns the value the wrapped function
\* returned when the entry was stored, except that cached with force_tuple
\* returns a stored list of two elements as the tuple of these elements.
ServedValueAsStoredOrTuple ==
    ServedFromStore =>
        IF func.kind = "view" /\ func.force_tuple /\ func.shape = "list2"
        THEN last.rv = <<"tuple", StoredReturn[2]>>
        ELSE last.rv = StoredReturn

\* a stored list of two elements served as a tuple
ServedTupleWitness ==
    /\ ServedFromStore
    /\ func.kind = "view"
    /\ StoredReturn[1] = "list"
    /\ last.rv = <<"tuple", StoredReturn[2]>>

-----------------------------------------------------------------------------
(* A memoized classmethod called through the class and through instances *)

MaxCalls == 3       \* calls kept in the log of a run

\* (variant: the receiver itself is passed as cls)
ReceiverItself(receiver) == receiver

\* classmethod binds the class of the receiver as cls: the receiver if it is
\* the class, else the class of the instance
ClassOf(receiver) == IF isclass(receiver) THEN receiver ELSE ClassA

Receivers == Instances \cup {ClassA}

\* receiver.f(*args, **kwargs); every call is logged with its key
ClassmethodCallVia ==
    /\ Len(log) < MaxCalls
    /\ \E call \in FnCalls(func), receiver \in Receivers :
         \E args \in {<<ClassOf(receiver)>> \o OwnArgs(func, call)} :
            \E kr \in {make_cache_key(cache, clock, ntok, func, func, args, call.kwargs)} :
               \E r \in {LookupKey(kr, clock, nval, func, args, call.kwargs)} :
                  /\ r.val <= MaxInvocations
                  /\ r.tok <= MaxTokens
                  /\ cache' = r.c
                  /\ ntok' = r.tok
                  /\ nval' = r.val
                  /\ last' = [op |-> "call", slf |-> <<receiver>>,
                              asg |-> Effective(func, call), rv |-> r.rv,
                              invoked |-> r.invoked, key |-> kr.key, time |-> clock]
                  /\ log' = Append(log, last')
    /\ UNCHANGED <<func, clock, stale>>
    /\ UNCHANGED kvars

\* cache.delete_memoized(A.f)
DeleteClassmethod ==
    Invalidate(delete_memoized(cache, clock, ntok, func, BoundMethod(func, ClassA),
                               <<>>, <<>>),
               "reset_function", <<>>, <<>>, 0..(nval - 1))

NextCallers ==
    \/ ClassmethodCallVia
    \/ DeleteClassmethod
    \/ Tick

SpecCallers == InitClassmethod /\ [][NextCallers]_vars

\* the version key of the classmethod, as delete_memoized(A.f) names it
ClassmethodVersionKey ==
    _memvname(function_namespace(BoundMethod(func, ClassA), <<>>).ns)

\* C29: the key of a memoized classmethod is the same whichever instance or
\* the class the call goes through and carries the function-level version
\* token only, the one version entry there is, so that a caller is served
\* what another caller stored; after delete_memoized(A.f) without arguments
\* no caller is served a result stored before.
ClassmethodKeySharedByCallers ==
    /\ \A v, w \in 1..Len(log) :
          /\ Len(log[v].key) = 3
          /\ log[v].asg = log[w].asg => log[v].key[2] = log[w].key[2]
          /\ (v < w /\ log[v].key = log[w].key /\ log[v].time = log[w].time)
             => ~log[w].invoked
    /\ VersionEntries(cache) \subseteq {ClassmethodVersionKey}
    /\ last.op = "call" =>
          /\ last.key[3] = Loads(cache[ClassmethodVersionKey].value)[2]
          /\ ~last.invoked => last.rv[2] \notin stale

\* a call through an instance served the result a call through the class or
\* another instance stored
ClassmethodCallersWitness ==
    /\ last.op = "call"
    /\ ~last.invoked
    /\ ~isclass(last.slf[1])
    /\ \E v \in 1..Len(log) :
          log[v].invoked /\ log[v].rv = last.rv /\ log[v].slf # last.slf

\* a call after delete_memoized(A.f) invoked the function again
ClassmethodResetWitness ==
    /\ last.op = "call"
    /\ last.invoked
    /\ stale # {}
    /\ \E v \in 1..Len(log) :
          log[v].rv[2] \in stale /\ log[v].asg = last.asg /\ log[v].time = clock

-----------------------------------------------------------------------------
(* Version resets of functions and of methods bound to an instance *)

NextReset ==
    \/ MemoCall
    \/ DeleteMemoized
    \/ DeleteMemoizedBound
    \/ Tick

SpecReset == InitMemo /\ [][NextReset]_vars

\* the version key of the method bound to the instance obj
InstanceVersionKey(obj) ==
    _memvname(function_namespace(BoundMethod(func, obj), <<>>).ins)

\* the version entry a reset that left op and slf in last is to write
ResetKey(op, slf) ==
    IF op = "reset_instance" THEN InstanceVersionKey(slf[1]) ELSE VersionKey

IsReset(op) == op \in {"reset_function", "reset_instance"}

\* C30: a version reset writes exactly one version entry, a fresh token under
\* the instance-level key when the function is bound to an instance and
\* under the function-level key otherwise; the other version entries and
\* every cached value are left as they were.
ResetWritesOneVersion ==
    [][(IsReset(last'.op) /\ cache' # cache) =>
          /\ DOMAIN cache' = DOMAIN cache \cup {ResetKey(last'.op, last'.slf)}
          /\ \A k \in DOMAIN cache \ {ResetKey(last'.op, last'.slf)} : cache'[k] = cache[k]
          /\ \A k \in VersionEntries(cache) :
                cache'[ResetKey(last'.op, last'.slf)].value # cache[k].value]_vars

\* an instance was reset while the function-level entry, the entry of
\* another instance and a cached value were in the store
ResetOneVersionWitness ==
    /\ last.op = "reset_instance"
    /\ VersionKey \in DOMAIN cache
    /\ \E obj \in Instances \ {last.slf[1]} : InstanceVersionKey(obj) \in DOMAIN cache
    /\ MemoEntries(cache) # {}
    /\ InstanceVersionKey(last.slf[1]) \in DOMAIN cache

-----------------------------------------------------------------------------
(* Functions and methods memoized with a forced_update predicate *)

ForcedFns == {OptFn(kind, FALSE, FALSE, "forced_update") : kind \in {"func", "method"}}

InitForced ==
    /\ func \in ForcedFns
    /\ cache = EmptyCache
    /\ clock = 0
    /\ ntok = 1
    /\ nval = 0
    /\ log = <<>>
    /\ stale = {}
    /\ last = NoLast
    /\ KIdle

\* a call of the memoized function, through an instance if it is a method
ForcedCall ==
    \E call \in FnCalls(func), env \in EnvChoices(func) :
       CalledWith(memoize_decorated_function(cache, clock, ntok, nval, func,
                                             call.args, call.kwargs, env),
                  "call", env, SelfArgs(func, call), Effective(func, call))

NextForced ==
    \/ ForcedCall
    \/ Tick

SpecForced == InitForced /\ [][NextForced]_vars

\* the version keys a call through slf fetches
CallVersionKeys(slf) ==
    {VersionKey} \cup (IF Len(slf) > 0 THEN {InstanceVersionKey(slf[1])} ELSE {})

\* C31: a memoized call whose forced_update predicate is true writes the
\* function-level and instance-level version entries it finds again with the
\* token they hold and a TTL starting now, changes no token that was
\* present, and leaves every result cached for other arguments served.
ForcedUpdateKeepsTokens ==
    [][(last'.op = "call" /\ last'.env.forced_update = PyTrue /\ nval' # nval) =>
          /\ \A k \in LiveVersions(cache, clock) :
                /\ k \in DOMAIN cache'
                /\ cache'[k].value = cache[k].value
                /\ k \in CallVersionKeys(last'.slf) =>
                      cache'[k].expires = clock + EffectiveTimeout(func.cache_timeout)
          /\ \A c2 \in FnCalls(func) :
                (<<SelfArgs(func, c2), Effective(func, c2)>> # <<last'.slf, last'.asg>>
                    /\ Served(cache, clock, ntok, func, c2) # Miss)
                => Served(cache', clock, ntok', func, c2) = Served(cache, clock, ntok, func, c2)]_vars

\* a forced call through an instance, later than the call that wrote the
\* tokens, whose result for other arguments is still stored under them
ForcedUpdateKeepsTokensWitness ==
    /\ last.op = "call"
    /\ last.env.forced_update = PyTrue
    /\ func.kind = "method"
    /\ clock > 0
    /\ \A k \in CallVersionKeys(last.slf) :
          k \in DOMAIN cache
             /\ cache[k].expires = clock + EffectiveTimeout(func.cache_timeout)
    /\ \E k \in MemoEntries(cache) :
          /\ k # last.key
          /\ k[3] = last.key[3]
          /\ cache[k].value = Dumps(Result(0))
          /\ cache[k].expires < clock + EffectiveTimeout(func.cache_timeout)

-----------------------------------------------------------------------------
(* Concurrent memoized calls: each backend operation and the invocation of  *)
(* the wrapped function is a step of its own                                *)

MaxThreads == 2     \* threads calling the decorated function
MaxOps == 4         \* calls and resets begun in a run
MaxVersions == 4    \* version hashes drawn by the threads of a run

Procs == 1..MaxThreads
IdleThread == [pc |-> "idle"]
InFlight == {t \in Procs : threads[t].pc # "idle"}

\* (variant: every call writes back the versions it fetched)
VersionReadDirty(tok, fetch_keys, got, reset, forced_update) ==
    LET new1 == got[1] = None
        v1 == IF new1 THEN _memoize_make_version_hash(tok) ELSE got[1]
        tok1 == IF new1 THEN tok + 1 ELSE tok
        new2 == Len(fetch_keys) = 2 /\ got[2] = None
        v2 == IF new2 THEN _memoize_make_version_hash(tok1) ELSE got[Len(got)]
        vlist == IF Len(fetch_keys) = 2 THEN <<v1, v2>> ELSE <<v1>>
    IN  [tok |-> IF new2 THEN tok1 + 1 ELSE tok1,
         pending |-> [i \in 1..Len(fetch_keys) |-> <<fetch_keys[i], vlist[i]>>],
         version_data |-> JoinVersionData(vlist)]

\* _memoize_version up to its write: the versions get_many returned, a fresh
\* one for each that is missing, and what set_many is to write.
\* [tok, pending, version_data]
VersionRead(tok, fetch_keys, got, reset, forced_update) ==
    LET new1 == got[1] = None
        v1 == IF new1 THEN _memoize_make_version_hash(tok) ELSE got[1]
        tok1 == IF new1 THEN tok + 1 ELSE tok
        new2 == Len(fetch_keys) = 2 /\ got[2] = None
        v2 == IF new2 THEN _memoize_make_version_hash(tok1) ELSE got[Len(got)]
        tok2 == IF new2 THEN tok1 + 1 ELSE tok1
        vlist == IF Len(fetch_keys) = 2 THEN <<v1, v2>> ELSE <<v1>>
    IN  IF reset
        THEN [tok |-> tok2 + 1,
              pending |-> <<<<fetch_keys[Len(fetch_keys)], _memoize_make_version_hash(tok2)>>>>,
              version_data |-> <<>>]
        ELSE [tok |-> tok2,
              pending |-> IF forced_update \/ new1 \/ new2
                          THEN [i \in 1..Len(fetch_keys) |-> <<fetch_keys[i], vlist[i]>>]
                          ELSE <<>>,
              version_data |-> JoinVersionData(vlist)]

\* functions and methods memoized for the concurrent runs
ConcFn(kind, cache_none, forced) ==
    Fn(kind, Required, FALSE, FALSE, None, {})
    @@ [cache_none |-> cache_none, has_forced_update |-> forced]

InitThreads(fns) ==
    /\ func \in fns
    /\ cache = EmptyCache
    /\ clock = 0
    /\ ntok = 1
    /\ nval = 0
    /\ log = <<>>
    /\ stale = {}
    /\ last = NoLast
    /\ kf = NoFn
    /\ kcall = NoCall
    /\ kkey = <<>>
    /\ kprevkey = <<>>
    /\ kop = "idle"
    /\ threads = [t \in Procs |-> IdleThread]

Unchanged(t) == UNCHANGED <<func, clock, last, kf, kcall, kkey, kprevkey, kop>>

\* the version of the function is settled: written, and no write under way
Settled ==
    /\ CacheHas(cache, clock, VersionKey)
    /\ \A t \in Procs : threads[t].pc # "set_many"

\* the thread returns: its call is logged with what it returned
Return(t, rv) ==
    /\ log' = Append(log, [threads[t] EXCEPT !.pc = "returned", !.rv = rv])
    /\ threads' = [threads EXCEPT ![t] = IdleThread]

\* decorated_function(*args, **kwargs) is entered
TCall(t) ==
    /\ threads[t].pc = "idle"
    /\ Len(log) + Cardinality(InFlight) < MaxOps
    /\ \E call \in FnCalls(func), forced \in {FALSE, func.has_forced_update} :
         threads' = [threads EXCEPT ![t] =
            [pc |-> "get_many", op |-> "call", slf |-> SelfArgs(func, call),
             asg |-> Effective(func, call), forced |-> forced,
             fetch_keys |-> FetchKeys(function_namespace(func, call.args).ns,
                                      function_namespace(func, call.args).ins),
             keystring |-> PureKey(func, call), begun |-> stale, late |-> Settled,
             pending |-> <<>>, key |-> <<>>, rv |-> None, invoked |-> FALSE,
             wrote |-> FALSE]]
    /\ UNCHANGED <<cache, ntok, nval, log, stale>>
    /\ Unchanged(t)

\* cache.delete_memoized(f) is entered
TReset(t) ==
    /\ threads[t].pc = "idle"
    /\ Len(log) + Cardinality(InFlight) < MaxOps
    /\ threads' = [threads EXCEPT ![t] =
          [pc |-> "get_many", op |-> "reset", slf |-> <<>>, asg |-> <<>>,
           forced |-> FALSE,
           fetch_keys |-> <<VersionKey>>, keystring |-> <<>>, begun |-> stale,
           late |-> Settled,
           pending |-> <<>>, key |-> <<>>, rv |-> None, invoked |-> FALSE,
             wrote |-> FALSE]]
    /\ UNCHANGED <<cache, ntok, nval, log, stale>>
    /\ Unchanged(t)

\* where a call goes on once its versions are written: cache.get, or the
\* wrapped function at once under forced_update
AfterVersions(th) == IF th.forced THEN "invoke" ELSE "get"

\* version_data_list = list(self.cache.get_many(*fetch_keys))
TGetMany(t) ==
    /\ threads[t].pc = "get_many"
    /\ \E vr \in {VersionRead(ntok, threads[t].fetch_keys,
                             CacheGetMany(cache, clock, threads[t].fetch_keys),
                             threads[t].op = "reset", threads[t].forced)} :
         /\ vr.tok <= MaxVersions + 1
         /\ ntok' = vr.tok
         /\ threads' = [threads EXCEPT ![t] =
               [threads[t] EXCEPT
                   !.pc = IF vr.pending # <<>> THEN "set_many" ELSE AfterVersions(threads[t]),
                   !.pending = vr.pending,
                   !.key = <<"memo", HashKey(threads[t].keystring), vr.version_data>>]]
    /\ UNCHANGED <<cache, nval, log, stale>>
    /\ Unchanged(t)

\* the values a reset that returns now leaves behind
StoredValues == {Loads(cache[k].value)[2] : k \in MemoEntries(cache)}

\* (variant: set_many leaves a key that holds a value as it is)
TAddOne(t) ==
    /\ threads[t].pc = "set_many"
    /\ cache' = IF CacheHas(cache, clock, threads[t].pending[1][1]) THEN cache
                ELSE CacheSet(cache, clock, threads[t].pending[1][1],
                              threads[t].pending[1][2], func.cache_timeout)
    /\ threads' = [threads EXCEPT ![t] =
                     [threads[t] EXCEPT !.pc = AfterVersions(threads[t]),
                                        !.pending = <<>>, !.wrote = TRUE]]
    /\ UNCHANGED <<log, stale, ntok, nval>>
    /\ Unchanged(t)

\* set_many: one self.set(key, value, timeout) of its loop
TSetOne(t) ==
    /\ threads[t].pc = "set_many"
    /\ cache' = CacheSet(cache, clock, threads[t].pending[1][1], threads[t].pending[1][2],
                         func.cache_timeout)
    /\ IF Len(threads[t].pending) > 1
       THEN /\ threads' = [threads EXCEPT ![t] =
                             [threads[t] EXCEPT !.pending = Tail(threads[t].pending),
                                                !.wrote = TRUE]]
            /\ UNCHANGED <<log, stale>>
       ELSE IF threads[t].op = "reset"
       THEN /\ Return(t, None)
            /\ stale' = stale \cup StoredValues
       ELSE /\ threads' = [threads EXCEPT ![t] =
                             [threads[t] EXCEPT !.pc = AfterVersions(threads[t]),
                                                !.pending = <<>>, !.wrote = TRUE]]
            /\ UNCHANGED <<log, stale>>
    /\ UNCHANGED <<ntok, nval>>
    /\ Unchanged(t)

\* (variant: a None from cache.get is always followed by cache.has)
TGetThenHas(t) ==
    /\ threads[t].pc = "get"
    /\ IF CacheGet(cache, clock, threads[t].key) # None
       THEN Return(t, CacheGet(cache, clock, threads[t].key))
       ELSE /\ threads' = [threads EXCEPT ![t].pc = "has"]
            /\ UNCHANGED log
    /\ UNCHANGED <<cache, ntok, nval, stale>>
    /\ Unchanged(t)

\* rv = self.cache.get(cache_key)
TGet(t) ==
    /\ threads[t].pc = "get"
    /\ IF CacheGet(cache, clock, threads[t].key) # None
       THEN Return(t, CacheGet(cache, clock, threads[t].key))
       ELSE /\ threads' = [threads EXCEPT ![t].pc =
                             IF func.cache_none THEN "has" ELSE "invoke"]
            /\ UNCHANGED log
    /\ UNCHANGED <<cache, ntok, nval, stale>>
    /\ Unchanged(t)

\* found = self.cache.has(cache_key)
THas(t) ==
    /\ threads[t].pc = "has"
    /\ IF CacheHas(cache, clock, threads[t].key)
       THEN Return(t, None)
       ELSE /\ threads' = [threads EXCEPT ![t].pc = "invoke"]
            /\ UNCHANGED log
    /\ UNCHANGED <<cache, ntok, nval, stale>>
    /\ Unchanged(t)

\* rv = f(*args, **kwargs)
TInvoke(t) ==
    /\ threads[t].pc = "invoke"
    /\ nval < MaxInvocations
    /\ nval' = nval + 1
    /\ threads' = [threads EXCEPT ![t] =
          [threads[t] EXCEPT !.pc = "set", !.rv = Result(nval), !.invoked = TRUE]]
    /\ UNCHANGED <<cache, ntok, log, stale>>
    /\ Unchanged(t)

\* (variant: the result is stored only where the key holds none)
TAdd(t) ==
    /\ threads[t].pc = "set"
    /\ cache' = IF CacheHas(cache, clock, threads[t].key) THEN cache
                ELSE CacheSet(cache, clock, threads[t].key, threads[t].rv, func.cache_timeout)
    /\ Return(t, threads[t].rv)
    /\ UNCHANGED <<ntok, nval, stale>>
    /\ Unchanged(t)

\* self.cache.set(cache_key, rv, timeout=decorated_function.cache_timeout)
TSet(t) ==
    /\ threads[t].pc = "set"
    /\ cache' = CacheSet(cache, clock, threads[t].key, threads[t].rv, func.cache_timeout)
    /\ Return(t, threads[t].rv)
    /\ UNCHANGED <<ntok, nval, stale>>
    /\ Unchanged(t)

\* Two threads call f(a), memoized without options
RaceFns == {ConcFn("func", FALSE, FALSE)}
InitRace == InitThreads(RaceFns)

NextRace ==
    \E t \in Procs :
       \/ TCall(t)
       \/ TGetMany(t)
       \/ TSetOne(t)
       \/ TGet(t)
       \/ TInvoke(t)
       \/ TSet(t)

SpecRace == InitRace /\ [][NextRace]_vars

\* the calls returned so far that invoked the wrapped function
Invoked == {i \in 1..Len(log) : log[i].op = "call" /\ log[i].invoked}

\* C32: concurrent calls that miss on the same key each invoke the wrapped
\* function and write the key; each returns the value it computed itself,
\* and once they have returned the entry holds the value written last.
BothMissBothInvoke ==
    /\ \A i, j \in Invoked : i # j => log[i].rv # log[j].rv
    /\ \A i \in Invoked :
          /\ log[i].key \in DOMAIN cache
          /\ (\A j \in Invoked : j > i => log[j].key # log[i].key)
                => cache[log[i].key].value = Dumps(log[i].rv)

\* two calls missed on the same key, both invoked the function and wrote the
\* key; the entry holds the value of the second to write
BothMissWitness ==
    \E i, j \in Invoked :
       /\ i < j
       /\ log[i].key = log[j].key
       /\ log[i].rv # log[j].rv
       /\ InFlight = {}
       /\ cache[log[j].key].value = Dumps(log[j].rv)

\* the version a call that reads now is given
CurrentVersion == JoinVersionData(CacheGetMany(cache, clock, <<VersionKey>>))

\* the calls begun once the version was settled, returned or not
LateCalls ==
    {log[i] : i \in {j \in 1..Len(log) : log[j].late}}
    \cup {threads[t] : t \in {u \in Procs : threads[u].pc \in {"get", "has", "invoke", "set"}
                                            /\ threads[u].late}}

\* C33: concurrent calls that both find no version each generate and write
\* one; the version entry holds the one written last, every call begun after
\* that uses it, and none of them is served a result stored under the other.
VersionRaceSettles ==
    /\ [][\A t \in Procs :
            (threads[t].pc = "set_many" /\ threads'[t].pc # "set_many")
               => cache'[VersionKey].value = Dumps(threads[t].pending[1][2])]_vars
    /\ [](\A c \in LateCalls :
            /\ c.key[3] = CurrentVersion
            /\ (c.pc = "returned" /\ ~c.invoked)
                  => \E i \in Invoked : /\ log[i].rv = c.rv
                                        /\ log[i].key = c.key)

\* both calls generated a version; the result stored under the one
\* overwritten was computed again by a call begun afterwards
VersionRaceWitness ==
    \E i, j \in Invoked :
       /\ i < j
       /\ log[i].key[3] # CurrentVersion
       /\ Settled
       /\ log[j].late
       /\ log[j].keystring = log[i].keystring

\* Two threads call f(a), memoized with and without cache_none
NoneFns == {ConcFn("func", cache_none, FALSE) : cache_none \in BOOLEAN}
InitNone == InitThreads(NoneFns)

NextNone ==
    \E t \in Procs :
       \/ TCall(t)
       \/ TGetMany(t)
       \/ TSetOne(t)
       \/ TGet(t)
       \/ THas(t)
       \/ TInvoke(t)
       \/ TSet(t)

SpecNone == InitNone /\ [][NextNone]_vars

\* the calls that returned None
ReturnedNone == {i \in 1..Len(log) : log[i].op = "call" /\ log[i].rv = None}

\* C34: without cache_none no call returns None unless an invocation
\* produced None; with cache_none a call whose key is stored by another
\* caller between its cache.get and its cache.has returns None although no
\* invocation produced it.
NoneOnlyWithCacheNone == ReturnedNone # {} => func.cache_none

\* under cache_none a call returned None that no invocation produced: the
\* key was stored between its get and its has
NoneFromRaceWitness ==
    \E i \in ReturnedNone :
       /\ func.cache_none
       /\ ~log[i].invoked
       /\ \A j \in Invoked : log[j].rv # None
       /\ CacheGet(cache, clock, log[i].key) # None

\* Calls of a method on several instances, or of a function with
\* forced_update, run while cache.delete_memoized(f) does
ResetFns == {ConcFn("method", FALSE, FALSE), ConcFn("func", FALSE, TRUE)}
InitRaceReset == InitThreads(ResetFns)

NextRaceReset ==
    \E t \in Procs :
       \/ TCall(t)
       \/ TReset(t)
       \/ TGetMany(t)
       \/ TSetOne(t)
       \/ TGet(t)
       \/ TInvoke(t)
       \/ TSet(t)

SpecRaceReset == InitRaceReset /\ [][NextRaceReset]_vars

\* the calls returned so far that were served from the store
Hits == {i \in 1..Len(log) : log[i].op = "call" /\ ~log[i].invoked}

\* C36: once delete_memoized(f) has returned, no call of f begun afterwards
\* returns a value stored before it returned, whatever calls were under way
\* while it ran.
ResetDurable == \A i \in Hits : log[i].rv[2] \notin log[i].begun

-----------------------------------------------------------------------------
(* FileSystemCache: one file per key in the cache directory, and the        *)
(* management file that keeps their count                                   *)

_threshold == 2     \* files the cache keeps before it starts deleting some

FsKeys == PlainKeys \cup {<<"plain", "hu">>}
_fs_count_file == <<"plain", "__wz_cache_count">>
FsTimeouts == {PyInt(0), PyInt(1)}
FsValues == {None, PyInt(0)}

\* _normalize_timeout of FileSystemCache: the time the file expires, 0 never
FsExpires(timeout, now) ==
    LET t == IF timeout = None THEN default_timeout ELSE timeout[2]
    IN  IF t # 0 THEN now + t ELSE 0

_list_dir(dir) == DOMAIN dir \ {_fs_count_file}
Remove(dir, names) == [f \in DOMAIN dir \ names |-> dir[f]]
WriteFile(dir, name, expires, value) ==
    (name :> [expires |-> expires, value |-> Dumps(value)]) @@ dir

\* get and has find the file expired
FsStale(dir, now, key) ==
    key \in DOMAIN dir /\ dir[key].expires # 0 /\ dir[key].expires < now

\* self.get(self._fs_count_file) or 0; the management file never expires
_file_count(dir) ==
    IF _fs_count_file \in DOMAIN dir /\ Loads(dir[_fs_count_file].value) # None
    THEN Loads(dir[_fs_count_file].value)[2] ELSE 0

_update_count(dir, delta, value) ==
    IF _threshold = 0 THEN dir
    ELSE WriteFile(dir, _fs_count_file, 0,
                   PyInt(IF delta # 0 THEN _file_count(dir) + delta ELSE value))

\* delete(key): [dir, rv]
FsDelete(dir, key) ==
    IF key \in DOMAIN dir
    THEN [dir |-> _update_count(Remove(dir, {key}), -1, 0), rv |-> PyTrue]
    ELSE [dir |-> dir, rv |-> PyFalse]

\* _prune: over the threshold, the expired files and every third file of the
\* listing go; first is the file os.listdir lists first, and with at most
\* three files listed no other index is a multiple of 3
FsPrune(dir, now, first) ==
    IF _threshold = 0 \/ ~(_file_count(dir) > _threshold) THEN dir
    ELSE LET removed == {f \in _list_dir(dir) :
                            \/ dir[f].expires # 0 /\ dir[f].expires <= now
                            \/ f = first}
         IN  _update_count(Remove(dir, removed), 0,
                           Cardinality(_list_dir(dir) \ removed))

\* (variant: every set counts a file, as before the file was looked for)
FsSetCountsAlways(dir, now, key, value, timeout, first) ==
    [dir |-> _update_count(WriteFile(FsPrune(dir, now, first), key,
                                     FsExpires(timeout, now), value), 1, 0),
     rv |-> PyTrue]

\* set(key, value, timeout): [dir, rv]
FsSet(dir, now, key, value, timeout, first) ==
    LET pruned == FsPrune(dir, now, first)
        written == WriteFile(pruned, key, FsExpires(timeout, now), value)
    IN  [dir |-> IF key \notin DOMAIN pruned THEN _update_count(written, 1, 0)
                 ELSE written,
         rv |-> PyTrue]

\* get(key): [dir, rv]; an expired file is deleted on the way
FsGet(dir, now, key) ==
    IF key \notin DOMAIN dir THEN [dir |-> dir, rv |-> None]
    ELSE IF FsStale(dir, now, key) THEN [dir |-> FsDelete(dir, key).dir, rv |-> None]
    ELSE [dir |-> dir, rv |-> Loads(dir[key].value)]

\* has(key): [dir, rv]
FsHas(dir, now, key) ==
    IF key \notin DOMAIN dir THEN [dir |-> dir, rv |-> PyFalse]
    ELSE IF FsStale(dir, now, key) THEN [dir |-> FsDelete(dir, key).dir, rv |-> PyFalse]
    ELSE [dir |-> dir, rv |-> PyTrue]

\* add(key, value, timeout): [dir, rv]; should_add = not os.path.exists
FsAdd(dir, now, key, value, timeout, first) ==
    IF key \notin DOMAIN dir
    THEN [dir |-> FsSet(dir, now, key, value, timeout, first).dir, rv |-> PyTrue]
    ELSE [dir |-> dir, rv |-> PyFalse]

\* clear(): [dir, rv]
FsClear(dir) ==
    [dir |-> _update_count(Remove(dir, _list_dir(dir)), 0, 0), rv |-> PyTrue]

\* FileSystemCache(cache_dir, threshold) on an empty directory
InitFs ==
    /\ func = NoFn
    /\ cache = _update_count(EmptyCache, 0, 0)
    /\ clock = 0
    /\ ntok = 1
    /\ nval = 0
    /\ log = <<>>
    /\ stale = {}
    /\ last = NoLast
    /\ KIdle

\* the files os.listdir may list first
FirstListed(dir) == IF _list_dir(dir) = {} THEN {_fs_count_file} ELSE _list_dir(dir)

\* an operation of the client ran: last keeps whether it found a file of the
\* key, whether that had expired, and whether the count was over the threshold
FsRan(op, key, r) ==
    /\ cache' = r.dir
    /\ last' = [op |-> op, slf |-> <<>>, asg |-> <<key>>, invoked |-> FALSE,
                rv |-> r.rv, found |-> key \in DOMAIN cache,
                expired |-> FsStale(cache, clock, key),
                full |-> _file_count(cache) > _threshold]
    /\ UNCHANGED <<func, clock, ntok, nval, log, stale>>
    /\ UNCHANGED kvars

FsSetOp ==
    \E key \in FsKeys, v \in FsValues, timeout \in FsTimeouts, first \in FirstListed(cache) :
       FsRan("set", key, FsSet(cache, clock, key, v, timeout, first))

FsAddOp ==
    \E key \in FsKeys, v \in FsValues, timeout \in FsTimeouts, first \in FirstListed(cache) :
       FsRan("add", key, FsAdd(cache, clock, key, v, timeout, first))

FsGetOp == \E key \in FsKeys : FsRan("get", key, FsGet(cache, clock, key))

FsHasOp == \E key \in FsKeys : FsRan("has", key, FsHas(cache, clock, key))

FsDeleteOp == \E key \in FsKeys : FsRan("delete", key, FsDelete(cache, key))

FsClearOp == FsRan("clear", _fs_count_file, FsClear(cache))

NextFs ==
    \/ FsSetOp
    \/ FsAddOp
    \/ FsGetOp
    \/ FsHasOp
    \/ FsDeleteOp
    \/ FsClearOp
    \/ Tick

SpecFs == InitFs /\ [][NextFs]_vars

\* C35: with a threshold, after any sequence of set, add, get, has, delete
\* and clear by one client the count kept in the management file is the
\* number of cache files in the directory.
CountMatchesFiles == _file_count(cache) = Cardinality(_list_dir(cache))

\* an expired file was deleted by the get that found it, others remain
LazyDeletionWitness ==
    /\ last.op = "get"
    /\ last.expired
    /\ last.asg[1] \notin DOMAIN cache
    /\ _file_count(cache) = 1

\* a set of None over the file of its key left the count as it was
OverwriteWitness ==
    /\ last.op = "set"
    /\ last.found
    /\ Loads(cache[last.asg[1]].value) = None
    /\ _file_count(cache) = 2

\* set went over the threshold and pruned
PruneWitness ==
    /\ last.op = "set"
    /\ last.full
    /\ _file_count(cache) = _threshold

\* C40: add(key, value) stores the value and returns True exactly when a
\* get of the key would miss, the file of an expired entry still lying in
\* the directory included; on a live entry it returns False and leaves the
\* value as it was.
AddStoresWhenGetMisses ==
    [][(last'.op = "add" /\ clock' = clock) =>
         IF last'.asg[1] \notin DOMAIN cache \/ FsStale(cache, clock, last'.asg[1])
         THEN /\ last'.rv = PyTrue
              /\ FsHas(cache', clock, last'.asg[1]).rv = PyTrue
         ELSE /\ last'.rv = PyFalse
              /\ cache'[last'.asg[1]] = cache[last'.asg[1]]]_vars

-----------------------------------------------------------------------------
(* Invocations of the wrapped function in one decorated call *)

\* the store serves the call that left key in last: get returns a value, or
\* under cache_none has finds the key
StoreServes(l) ==
    IF func.cache_none THEN CacheHas(cache, clock, l.key)
    ELSE CacheGet(cache, clock, l.key) # None

\* C37: a cached or memoized call invokes the wrapped function at most once:
\* once when the cache is bypassed, on a miss, on a forced update and when a
\* backend operation raised, a failing store included; not at all on a hit.
InvokedAtMostOnce ==
    [][(IsCall(last') /\ (last' # last \/ nval' # nval)) =>
          IF \/ _bypass_cache(last'.env.unless)
             \/ IsForced(last'.env.forced_update)
             \/ last'.ops \cap last'.env.fail # {}
             \/ ~StoreServes(last')
          THEN nval' = nval + 1
          ELSE nval' = nval]_vars

\* the store of the result raised: the function ran once and its result is
\* not in the backend
FailingStoreWitness ==
    /\ IsCall(last) /\ last.env.fail = {"set"} /\ "set" \in last.ops
    /\ last.invoked
    /\ last.rv = Result(nval - 1)
    /\ ~CacheHas(cache, clock, last.key)

-----------------------------------------------------------------------------
(* delete_memoized on a bound method with the arguments of a call *)

InitBound == Init /\ func.kind = "method"

\* cache.delete_memoized(obj.f, *args, **kwargs), the arguments those of the
\* call obj.f(*args, **kwargs)
DeleteMemoizedBoundArgs ==
    \E call \in FnCalls(func) :
       /\ Len(OwnArgs(func, call)) + Len(call.kwargs) > 0
       /\ Invalidate(delete_memoized(cache, clock, ntok, func,
                                     BoundMethod(func, call.args[1]),
                                     OwnArgs(func, call), call.kwargs),
                     "delete_bound_args", SelfArgs(func, call), Effective(func, call),
                     stale)

NextBound ==
    \/ MemoCall
    \/ DeleteMemoizedBoundArgs
    \/ Tick

SpecBound == InitBound /\ [][NextBound]_vars

\* C39: delete_memoized(obj.method, *args) with the arguments of a call but
\* self removes the entry of that instance: the next obj.method(*args)
\* invokes the method again.
BoundDeleteArgsRemovesEntry ==
    [][(last'.op = "delete_bound_args" /\ clock' = clock) =>
          \A call \in CallsOf(last'.slf, last'.asg) :
             Served(cache', clock', ntok', func, call) = Miss]_vars

====
